---- MODULE Spec2Model ----
(***************************************************************************)
(* Question understanding and dialogue routing of the quality-inspection   *)
(* assistant: EnhancedSmartAnalyzer (enhanced_smart_analyzer.py) and       *)
(* IntelligentDataAnalyzer (intelligent_data_analyzer.py).                 *)
(*                                                                         *)
(* A string is a sequence of one-character strings, so that Python's       *)
(* substring test `k in s`, str.lower() and the regular expressions of the *)
(* source are computed character by character.                             *)
(***************************************************************************)
EXTENDS Integers, Sequences, FiniteSets, TLC

\* ------------------------------------------------------------------ strings

LowerOf ==
    [A |-> "a", B |-> "b", C |-> "c", D |-> "d", E |-> "e", F |-> "f", G |-> "g", H |-> "h", I |-> "i", J |-> "j", K |-> "k", L |-> "l", M |-> "m",
     N |-> "n", O |-> "o", P |-> "p", Q |-> "q", R |-> "r", S |-> "s", T |-> "t", U |-> "u", V |-> "v", W |-> "w", X |-> "x", Y |-> "y", Z |-> "z"]

UpperChars == DOMAIN LowerOf

DigitChars == <<"0","1","2","3","4","5","6","7","8","9">>

IsDigit(c) == \E d \in 1..10 : DigitChars[d] = c

IsSpace(c) == c \in {" ", "\n", "\t"}

DigitVal(c) == (CHOOSE d \in 1..10 : DigitChars[d] = c) - 1

\* int(ds) for a non-empty string of digits
RECURSIVE int(_)
int(ds) ==
    IF Len(ds) = 0 THEN 0
    ELSE 10 * int(SubSeq(ds, 1, Len(ds) - 1)) + DigitVal(ds[Len(ds)])

\* str.lower()
lower(s) == [i \in 1..Len(s) |-> IF s[i] \in UpperChars THEN LowerOf[s[i]] ELSE s[i]]

\* s[i:i+len(k)] == k
StartsAt(s, i, k) == i + Len(k) - 1 <= Len(s) /\ SubSeq(s, i, i + Len(k) - 1) = k

\* Python's `k in s`
Contains(s, k) == \E i \in 1..(Len(s) - Len(k) + 1) : StartsAt(s, i, k)

\* any(word in s for word in words)
AnyIn(s, words) == \E j \in 1..Len(words) : Contains(s, words[j])

\* number of entries of words that occur in s
CountIn(s, words) == Cardinality({j \in 1..Len(words) : Contains(s, words[j])})

\* the end of the run of characters satisfying a class, read from position i
RECURSIVE DigitRunEnd(_, _)
DigitRunEnd(s, i) == IF i <= Len(s) /\ IsDigit(s[i]) THEN DigitRunEnd(s, i + 1) ELSE i

RECURSIVE SpaceRunEnd(_, _)
SpaceRunEnd(s, i) == IF i <= Len(s) /\ IsSpace(s[i]) THEN SpaceRunEnd(s, i + 1) ELSE i

\* str.strip()
RECURSIVE strip(_)
strip(s) ==
    IF Len(s) = 0 THEN s
    ELSE IF IsSpace(s[1]) THEN strip(SubSeq(s, 2, Len(s)))
    ELSE IF IsSpace(s[Len(s)]) THEN strip(SubSeq(s, 1, Len(s) - 1))
    ELSE s

\* ' '.join(words)
RECURSIVE join(_)
join(words) ==
    IF Len(words) = 0 THEN <<>>
    ELSE IF Len(words) = 1 THEN words[1]
    ELSE words[1] \o <<" ">> \o join(SubSeq(words, 2, Len(words)))

\* ------------------------------------------- EnhancedSmartAnalyzer: vocabularies

\* the value None of Python (counts are parsed from \d+ and are never negative)
None == -1

\* setup_semantic_patterns: self.chart_type_patterns (the dict's insertion order is chart_labels)
chart_labels == <<"pie", "bar", "line", "scatter">>

chart_type_patterns ==
    [pie |->
        [keywords |-> <<
            <<"p","i","e">>, <<"d","i","s","t","r","i","b","u","t","i","o","n">>,
            <<"p","r","o","p","o","r","t","i","o","n">>,
            <<"p","e","r","c","e","n","t","a","g","e">>, <<"s","h","a","r","e">>,
            <<"b","r","e","a","k","d","o","w","n">> >>,
         phrases |-> <<
            <<"p","i","e"," ","c","h","a","r","t">>,
            <<"s","h","o","w"," ","d","i","s","t","r","i","b","u","t","i","o","n">>,
            <<"b","r","e","a","k"," ","d","o","w","n">>,
            <<"p","r","o","p","o","r","t","i","o","n"," ","o","f">> >>],
     bar |->
        [keywords |-> <<
            <<"b","a","r">>, <<"c","o","m","p","a","r","e">>,
            <<"c","o","m","p","a","r","i","s","o","n">>, <<"r","a","n","k","i","n","g">>,
            <<"t","o","p">>, <<"h","i","g","h","e","s","t">>, <<"l","o","w","e","s","t">> >>,
         phrases |-> <<
            <<"b","a","r"," ","c","h","a","r","t">>, <<"c","o","m","p","a","r","e">>,
            <<"r","a","n","k">>, <<"t","o","p"," ","1","0">>, <<"h","i","g","h","e","s","t">>,
            <<"l","o","w","e","s","t">> >>],
     line |->
        [keywords |-> <<
            <<"l","i","n","e">>, <<"t","r","e","n","d">>, <<"o","v","e","r"," ","t","i","m","e">>,
            <<"t","i","m","e","l","i","n","e">>, <<"p","r","o","g","r","e","s","s","i","o","n">>,
            <<"c","h","a","n","g","e">> >>,
         phrases |-> <<
            <<"l","i","n","e"," ","c","h","a","r","t">>, <<"o","v","e","r"," ","t","i","m","e">>,
            <<"t","r","e","n","d"," ","a","n","a","l","y","s","i","s">>,
            <<"t","i","m","e"," ","s","e","r","i","e","s">> >>],
     scatter |->
        [keywords |-> <<
            <<"s","c","a","t","t","e","r">>, <<"c","o","r","r","e","l","a","t","i","o","n">>,
            <<"r","e","l","a","t","i","o","n","s","h","i","p">>, <<"v","e","r","s","u","s">>,
            <<"v","s">> >>,
         phrases |-> <<
            <<"s","c","a","t","t","e","r"," ","p","l","o","t">>,
            <<"c","o","r","r","e","l","a","t","i","o","n">>,
            <<"r","e","l","a","t","i","o","n","s","h","i","p"," ","b","e","t","w","e","e","n">> >>]]

\* setup_semantic_patterns: self.data_focus_patterns (the dict's insertion order is focus_labels)
focus_labels == <<"defects", "parts", "trends", "performance">>

data_focus_patterns ==
    [defects |->
        [keywords |-> <<
            <<"d","e","f","e","c","t">>, <<"r","e","j","e","c","t","i","o","n">>,
            <<"r","e","a","s","o","n">>, <<"c","a","u","s","e">>, <<"p","r","o","b","l","e","m">>,
            <<"i","s","s","u","e">>, <<"f","a","u","l","t">> >>,
         phrases |-> <<
            <<"r","e","j","e","c","t","i","o","n"," ","r","e","a","s","o","n","s">>,
            <<"d","e","f","e","c","t"," ","t","y","p","e","s">>,
            <<"w","h","y"," ","r","e","j","e","c","t","e","d">>,
            <<"c","a","u","s","e","s"," ","o","f">> >>],
     parts |->
        [keywords |-> <<
            <<"p","a","r","t">>, <<"c","o","m","p","o","n","e","n","t">>, <<"i","t","e","m">>,
            <<"p","r","o","d","u","c","t">>, <<"p","i","e","c","e">> >>,
         phrases |-> <<
            <<"p","a","r","t"," ","n","u","m","b","e","r">>,
            <<"w","h","i","c","h"," ","p","a","r","t">>,
            <<"p","a","r","t"," ","a","n","a","l","y","s","i","s">>,
            <<"c","o","m","p","o","n","e","n","t">> >>],
     trends |->
        [keywords |-> <<
            <<"t","r","e","n","d">>, <<"t","i","m","e">>, <<"m","o","n","t","h","l","y">>,
            <<"d","a","i","l","y">>, <<"w","e","e","k","l","y">>,
            <<"o","v","e","r"," ","t","i","m","e">>, <<"p","r","o","g","r","e","s","s","i","o","n">> >>,
         phrases |-> <<
            <<"o","v","e","r"," ","t","i","m","e">>,
            <<"t","r","e","n","d"," ","a","n","a","l","y","s","i","s">>,
            <<"t","i","m","e"," ","s","e","r","i","e","s">>,
            <<"m","o","n","t","h","l","y"," ","t","r","e","n","d","s">> >>],
     performance |->
        [keywords |-> <<
            <<"p","e","r","f","o","r","m","a","n","c","e">>, <<"q","u","a","l","i","t","y">>,
            <<"e","f","f","i","c","i","e","n","c","y">>, <<"r","a","t","e">>,
            <<"r","a","t","i","o">>, <<"p","e","r","c","e","n","t","a","g","e">> >>,
         phrases |-> <<
            <<"r","e","j","e","c","t","i","o","n"," ","r","a","t","e">>,
            <<"q","u","a","l","i","t","y"," ","p","e","r","f","o","r","m","a","n","c","e">>,
            <<"e","f","f","i","c","i","e","n","c","y"," ","a","n","a","l","y","s","i","s">> >>]]

\* the contextual bonus triggers of determine_chart_type
pie_bonus_words == <<
    <<"d","i","s","t","r","i","b","u","t","i","o","n">>,
    <<"p","r","o","p","o","r","t","i","o","n">>, <<"b","r","e","a","k","d","o","w","n">>,
    <<"s","h","a","r","e">> >>

bar_bonus_words == <<
    <<"c","o","m","p","a","r","e">>, <<"t","o","p">>, <<"h","i","g","h","e","s","t">>,
    <<"l","o","w","e","s","t">>, <<"r","a","n","k">> >>

line_bonus_words == <<
    <<"t","r","e","n","d">>, <<"o","v","e","r"," ","t","i","m","e">>,
    <<"m","o","n","t","h","l","y">>, <<"p","r","o","g","r","e","s","s","i","o","n">> >>

\* determine_question_type: the dict question_types, in its insertion order
question_types ==
    << [q_type |-> "comparison", keywords |-> <<
            <<"c","o","m","p","a","r","e">>, <<"v","e","r","s","u","s">>, <<"v","s">>,
            <<"d","i","f","f","e","r","e","n","c","e">>, <<"b","e","t","t","e","r">>,
            <<"w","o","r","s","e">> >>],
       [q_type |-> "ranking", keywords |-> <<
            <<"t","o","p">>, <<"h","i","g","h","e","s","t">>, <<"l","o","w","e","s","t">>,
            <<"b","e","s","t">>, <<"w","o","r","s","t">>, <<"r","a","n","k">> >>],
       [q_type |-> "quantity", keywords |-> <<
            <<"h","o","w"," ","m","a","n","y">>, <<"c","o","u","n","t">>,
            <<"n","u","m","b","e","r">>, <<"t","o","t","a","l">>, <<"s","u","m">> >>],
       [q_type |-> "analysis", keywords |-> <<
            <<"a","n","a","l","y","z","e">>, <<"a","n","a","l","y","s","i","s">>,
            <<"i","n","s","i","g","h","t">>, <<"p","a","t","t","e","r","n">>,
            <<"t","r","e","n","d">> >>],
       [q_type |-> "visualization", keywords |-> <<
            <<"c","h","a","r","t">>, <<"g","r","a","p","h">>, <<"p","l","o","t">>,
            <<"d","r","a","w">>, <<"s","h","o","w">>, <<"v","i","s","u","a","l","i","z","e">> >>],
       [q_type |-> "specific", keywords |-> <<
            <<"w","h","i","c","h">>, <<"w","h","a","t">>, <<"w","h","e","n">>,
            <<"w","h","e","r","e">>, <<"w","h","o">> >>],
       [q_type |-> "temporal", keywords |-> <<
            <<"w","h","e","n">>, <<"d","a","t","e">>, <<"t","i","m","e">>, <<"m","o","n","t","h">>,
            <<"d","a","y">>, <<"y","e","a","r">> >>] >>

\* the cue words tested by answer_question before anything else
answer_chart_words == <<
    <<"c","h","a","r","t">>, <<"g","r","a","p","h">>, <<"p","l","o","t">>, <<"d","r","a","w">>,
    <<"s","h","o","w">>, <<"v","i","s","u","a","l","i","z","e">>, <<"p","i","e">>, <<"b","a","r">>,
    <<"l","i","n","e">> >>

\* the cue words tested by generate_intelligent_response
response_chart_words == <<
    <<"c","h","a","r","t">>, <<"g","r","a","p","h">>, <<"p","l","o","t">>, <<"d","r","a","w">>,
    <<"s","h","o","w">>, <<"v","i","s","u","a","l","i","z","e">> >>

w_chart == <<"c","h","a","r","t">>

w_graph == <<"g","r","a","p","h">>

w_highest == <<"h","i","g","h","e","s","t">>

w_distribution == <<"d","i","s","t","r","i","b","u","t","i","o","n">>

w_top == <<"t","o","p">>

w_first == <<"f","i","r","s","t">>

w_most == <<"m","o","s","t">>

\* ------------------------------------------- EnhancedSmartAnalyzer: classification

\* one label's score in determine_chart_type / determine_data_focus:
\* +2 for every keyword and +3 for every phrase that occurs in the question
PatternScore(patterns, question_lower) ==
    2 * CountIn(question_lower, patterns.keywords) + 3 * CountIn(question_lower, patterns.phrases)

\* max(scores, key=scores.get), were it to keep the last label that has the highest score
LastMaxKey(labels, scores) ==
    labels[CHOOSE i \in 1..Len(labels) :
        /\ \A j \in 1..Len(labels) : scores[labels[j]] <= scores[labels[i]]
        /\ \A j \in (i + 1)..Len(labels) : scores[labels[j]] < scores[labels[i]]]

\* max(scores, key=scores.get): the first label, in the dict's order, that has the highest score
MaxKey(labels, scores) ==
    labels[CHOOSE i \in 1..Len(labels) :
        /\ \A j \in 1..Len(labels) : scores[labels[j]] <= scores[labels[i]]
        /\ \A j \in 1..(i - 1) : scores[labels[j]] < scores[labels[i]]]

MaxValue(labels, scores) == scores[MaxKey(labels, scores)]

\* chart_scores without the bonus of 5 that 'distribution' and its like give to pie
chart_scores_without_pie_bonus(question_lower) ==
    [c \in {"pie", "bar", "line", "scatter"} |->
        PatternScore(chart_type_patterns[c], question_lower)
        + (IF c = "bar" /\ AnyIn(question_lower, bar_bonus_words) THEN 5 ELSE 0)
        + (IF c = "line" /\ AnyIn(question_lower, line_bonus_words) THEN 5 ELSE 0)]

chart_scores(question_lower) ==
    [c \in {"pie", "bar", "line", "scatter"} |->
        PatternScore(chart_type_patterns[c], question_lower)
        + (IF c = "pie" /\ AnyIn(question_lower, pie_bonus_words) THEN 5 ELSE 0)
        + (IF c = "bar" /\ AnyIn(question_lower, bar_bonus_words) THEN 5 ELSE 0)
        + (IF c = "line" /\ AnyIn(question_lower, line_bonus_words) THEN 5 ELSE 0)]

\* determine_chart_type scoring the phrases only: a lone keyword gives no preference
chart_type_by_phrase(question_lower) ==
    LET scores == [c \in {"pie", "bar", "line", "scatter"} |->
                      3 * CountIn(question_lower, chart_type_patterns[c].phrases)]
    IN  IF MaxValue(chart_labels, scores) > 0 THEN MaxKey(chart_labels, scores) ELSE "auto"

determine_chart_type(question_lower) ==
    LET scores == chart_scores(question_lower)
    IN  IF MaxValue(chart_labels, scores) > 0 THEN MaxKey(chart_labels, scores) ELSE "auto"

focus_scores(question_lower) ==
    [f \in {"defects", "parts", "trends", "performance"} |->
        PatternScore(data_focus_patterns[f], question_lower)]

determine_data_focus(question_lower) ==
    LET scores == focus_scores(question_lower)
    IN  IF MaxValue(focus_labels, scores) > 0 THEN MaxKey(focus_labels, scores) ELSE "auto"

\* the loop of determine_question_type, were it to keep the last entry that matches
\* instead of returning at the first
last_matching_type(k, question_lower) ==
    LET hits == {j \in k..Len(question_types) : AnyIn(question_lower, question_types[j].keywords)}
    IN  IF hits = {} THEN "general"
        ELSE question_types[CHOOSE j \in hits : \A i \in hits : i <= j].q_type

\* the loop of determine_question_type from entry k on
RECURSIVE question_type_from(_, _)
question_type_from(k, question_lower) ==
    IF k > Len(question_types) THEN "general"
    ELSE IF AnyIn(question_lower, question_types[k].keywords) THEN question_types[k].q_type
    ELSE question_type_from(k + 1, question_lower)

determine_question_type(question_lower) == question_type_from(1, question_lower)

\* re.findall(r'top\s*(\d+)|first\s*(\d+)|(\d+)\s*most|(\d+)\s*highest', s): one match tried
\* at position i; <<end, digits>> of the match, or <<0, <<>> >> when nothing matches there
NumberMatchAt(s, i) ==
    LET after(k) == SpaceRunEnd(s, i + Len(k))
        lead(k) == StartsAt(s, i, k) /\ DigitRunEnd(s, after(k)) > after(k)
        dEnd == DigitRunEnd(s, i)
        trail(k) == dEnd > i /\ StartsAt(s, SpaceRunEnd(s, dEnd), k)
    IN  IF lead(w_top) THEN
            <<DigitRunEnd(s, after(w_top)), SubSeq(s, after(w_top), DigitRunEnd(s, after(w_top)) - 1)>>
        ELSE IF lead(w_first) THEN
            <<DigitRunEnd(s, after(w_first)), SubSeq(s, after(w_first), DigitRunEnd(s, after(w_first)) - 1)>>
        ELSE IF trail(w_most) THEN
            <<SpaceRunEnd(s, dEnd) + Len(w_most), SubSeq(s, i, dEnd - 1)>>
        ELSE IF trail(w_highest) THEN
            <<SpaceRunEnd(s, dEnd) + Len(w_highest), SubSeq(s, i, dEnd - 1)>>
        ELSE <<0, <<>> >>

\* the non-overlapping matches, left to right, as the integers of their groups
RECURSIVE number_matches(_, _)
number_matches(s, i) ==
    IF i > Len(s) THEN <<>>
    ELSE LET m == NumberMatchAt(s, i)
         IN  IF m[1] = 0 THEN number_matches(s, i + 1)
             ELSE <<int(m[2])>> \o number_matches(s, m[1])

\* the loop over number_matches: every match assigns specific_count, and the loop
\* stops at the first match whose count is truthy (non-zero)
RECURSIVE specific_count_loop(_, _, _)
specific_count_loop(matches, k, count) ==
    IF k > Len(matches) THEN count
    ELSE IF matches[k] # 0 THEN matches[k]
    ELSE specific_count_loop(matches, k + 1, matches[k])

extract_specific_count(question_lower) ==
    specific_count_loop(number_matches(question_lower, 1), 1, None)

analyze_question_semantically(question) ==
    LET question_lower == strip(lower(question))
    IN  [specific_count |-> extract_specific_count(question_lower),
         chart_type |-> determine_chart_type(question_lower),
         data_focus |-> determine_data_focus(question_lower),
         question_type |-> determine_question_type(question_lower)]

\* Python truthiness of a count: None and 0 are falsy
Truthy(count) == count # None /\ count # 0

\* `count or default`
OrDefault(count, default) == IF Truthy(count) THEN count ELSE default

\* ------------------------------------------- questions put to EnhancedSmartAnalyzer

\* the longest question built from esa_vocabulary, in chunks
MaxChunks == 2

esa_vocabulary ==
    << <<"h","e","l","l","o"," ","t","h","e","r","e">>, <<"t","o","p"," ","4","7">>, <<"t","o","p"," ","0">>, <<"r","e","j","e","c","t","i","o","n"," ","r","e","a","s","o","n","s">>, <<"d","e","f","e","c","t">>,
       <<"c","h","a","r","t">>, <<"w","h","i","c","h"," ","p","a","r","t">>, <<"h","i","g","h","e","s","t">>, <<"t","r","e","n","d">>, <<"d","i","s","t","r","i","b","u","t","i","o","n">> >>

\* enhanced_smart_analyzer.py, test_enhanced_analyzer: test_queries
test_queries ==
    << <<"t","e","l","l"," ","t","o","p"," ","5"," ","r","e","j","e","c","t","i","o","n"," ","r","e","a","s","o","n">>, <<"t","o","p"," ","1","0"," ","r","e","j","e","c","t","i","o","n"," ","r","e","a","s","o","n","s">>,
       <<"s","h","o","w"," ","m","e"," ","t","h","e"," ","m","o","s","t"," ","f","r","e","q","u","e","n","t"," ","r","e","j","e","c","t","i","o","n"," ","c","a","u","s","e","s">>, <<"w","h","a","t"," ","a","r","e"," ","t","h","e"," ","t","o","p"," ","3"," ","d","e","f","e","c","t"," ","t","y","p","e","s">>,
       <<"l","i","s","t"," ","t","h","e"," ","h","i","g","h","e","s","t"," ","r","e","j","e","c","t","i","o","n"," ","r","e","a","s","o","n","s">>, <<"m","o","s","t"," ","c","o","m","m","o","n"," ","d","e","f","e","c","t","s">> >>

\* test_graph_creation_complete.py, test_enhanced_analyzer: test_questions
test_questions ==
    << <<"t","o","p"," ","5"," ","r","e","j","e","c","t","i","o","n"," ","r","e","a","s","o","n","s">>, <<"c","r","e","a","t","e"," ","a"," ","p","i","e"," ","c","h","a","r","t"," ","o","f"," ","d","e","f","e","c","t","s">>,
       <<"s","h","o","w"," ","m","e"," ","a"," ","b","a","r"," ","c","h","a","r","t"," ","o","f"," ","r","e","j","e","c","t","i","o","n"," ","c","a","u","s","e","s">>, <<"d","r","a","w"," ","a"," ","t","r","e","n","d"," ","c","h","a","r","t"," ","o","v","e","r"," ","t","i","m","e">>,
       <<"v","i","s","u","a","l","i","z","e"," ","r","e","j","e","c","t","i","o","n"," ","d","i","s","t","r","i","b","u","t","i","o","n">>, <<"w","h","a","t"," ","a","r","e"," ","t","h","e"," ","h","i","g","h","e","s","t"," ","r","e","j","e","c","t","i","o","n"," ","r","e","a","s","o","n","s">>,
       <<"m","a","k","e"," ","a"," ","g","r","a","p","h"," ","o","f"," ","t","o","p"," ","1","0"," ","d","e","f","e","c","t","s">> >>

\* test_graph_creation_complete.py, test_all_chart_scenarios: chart_requests
chart_requests ==
    << <<"p","i","e"," ","c","h","a","r","t">>, <<"b","a","r"," ","c","h","a","r","t">>, <<"l","i","n","e"," ","c","h","a","r","t">>, <<"g","r","a","p","h">>, <<"p","l","o","t">>, <<"v","i","s","u","a","l","i","z","e">>,
       <<"d","r","a","w"," ","c","h","a","r","t">>, <<"s","h","o","w"," ","g","r","a","p","h">>, <<"c","r","e","a","t","e"," ","p","i","e"," ","c","h","a","r","t"," ","o","f"," ","r","e","j","e","c","t","i","o","n"," ","r","e","a","s","o","n","s">>,
       <<"m","a","k","e"," ","b","a","r"," ","c","h","a","r","t"," ","o","f"," ","t","o","p"," ","1","0"," ","d","e","f","e","c","t","s">>, <<"d","r","a","w"," ","l","i","n","e"," ","c","h","a","r","t"," ","s","h","o","w","i","n","g"," ","t","r","e","n","d","s">>,
       <<"v","i","s","u","a","l","i","z","e"," ","r","e","j","e","c","t","i","o","n"," ","d","i","s","t","r","i","b","u","t","i","o","n">>, <<"s","h","o","w"," ","t","o","p"," ","5"," ","r","e","j","e","c","t","i","o","n"," ","c","a","u","s","e","s"," ","i","n"," ","p","i","e"," ","c","h","a","r","t">>,
       <<"c","r","e","a","t","e"," ","h","o","r","i","z","o","n","t","a","l"," ","b","a","r"," ","c","h","a","r","t"," ","r","a","n","k","i","n","g"," ","d","e","f","e","c","t","s">>, <<"p","l","o","t"," ","m","o","n","t","h","l","y"," ","r","e","j","e","c","t","i","o","n"," ","t","r","e","n","d","s">>,
       <<"g","r","a","p","h"," ","t","h","e"," ","m","o","s","t"," ","c","o","m","m","o","n"," ","d","e","f","e","c","t"," ","t","y","p","e","s">> >>

\* further questions: one for every question type, counts in every position, mixed case
more_questions ==
    << <<"c","o","m","p","a","r","e">>, <<"h","o","w"," ","m","a","n","y">>, <<"w","h","e","n">>, <<"m","o","n","t","h","l","y">>, <<"p","e","r","c","e","n","t","a","g","e">>, <<"W","h","i","c","h"," ","P","a","r","t"," ","I","s"," ","H","i","g","h","e","s","t">>,
       <<"f","i","r","s","t"," ","5"," ","d","e","f","e","c","t"," ","t","y","p","e","s">>, <<"3"," ","m","o","s","t">>, <<"f","i","r","s","t"," ","4","7">>, <<"r","e","j","e","c","t","i","o","n"," ","r","e","a","s","o","n","s"," ","i","n"," ","2","0","2","4">>,
       <<"w","h","y"," ","d","o","e","s"," ","t","h","i","s"," ","p","a","r","t"," ","f","a","i","l"," ","s","o"," ","m","u","c","h","?">>, <<"s","h","o","w"," ","t","o","p"," ","4","7"," ","d","e","f","e","c","t","s">>, <<"s","h","o","w"," ","t","o","p"," ","0"," ","d","e","f","e","c","t","s">>,
       <<"s","h","o","w"," ","t","h","e"," ","t","o","p"," ","4","7"," ","r","e","j","e","c","t","i","o","n"," ","r","e","a","s","o","n","s">>, <<"t","o","p"," ","0"," ","t","o","p"," ","7"," ","d","e","f","e","c","t","s">>, <<"b","e","s","t"," ","t","i","m","e"," ","o","f"," ","d","a","y">>,
       <<"o","v","e","r"," ","t","i","m","e">>, <<"t","o","p"," ","4","7"," ","d","i","s","t","r","i","b","u","t","i","o","n"," ","g","r","a","p","h">>, <<"T","o","p"," ","4","7"," ","R","e","j","e","c","t","i","o","n"," ","R","e","a","s","o","n","s">> >>

\* questions that name one axis only, or that a rejection pattern intercepts
axis_questions ==
    << <<"w","h","i","c","h"," ","p","a","r","t"," ","h","a","s"," ","t","h","e"," ","h","i","g","h","e","s","t"," ","r","e","j","e","c","t","i","o","n">>, <<"p","l","o","t"," ","d","a","i","l","y"," ","n","u","m","b","e","r","s">>, <<"q","u","a","l","i","t","y"," ","p","e","r","f","o","r","m","a","n","c","e">>,
       <<"h","e","l","l","o"," ","t","h","e","r","e"," ","p","e","r","c","e","n","t","a","g","e">>, <<"w","e","e","k","l","y">>,
       <<"h","e","l","l","o"," ","t","h","e","r","e"," ","p","i","e","c","e">> >>

Range(seq) == {seq[i] : i \in 1..Len(seq)}

ChunkQuestions(vocabulary, n) ==
    {join([i \in 1..n |-> vocabulary[c[i]]]) : c \in [1..n -> 1..Len(vocabulary)]}

esa_questions ==
    Range(test_queries) \cup Range(test_questions) \cup Range(chart_requests)
    \cup Range(more_questions) \cup UNION {ChunkQuestions(esa_vocabulary, n) : n \in 1..MaxChunks}
    \cup Range(axis_questions)

\* ------------------------------------------- EnhancedSmartAnalyzer: answer_question

\* A regular expression of answer_question as a sequence of elements:
\*   lit    one of the alternatives        (a|b|c)
\*   ws     \s*
\*   optnum (\d+)?
\*   optlit (a)?
\*   any    .*     (a question holds no line break)
Lit(alts) == [t |-> "lit", alts |-> alts]

Ws == [t |-> "ws", alts |-> <<>>]

OptNum == [t |-> "optnum", alts |-> <<>>]

OptLit(alts) == [t |-> "optlit", alts |-> alts]

AnyChars == [t |-> "any", alts |-> <<>>]

rejection_patterns ==
    << <<Lit(<<<<"t","o","p">>>>), Ws, OptNum, Ws, Lit(<<<<"r","e","j","e","c","t","i","o","n">>, <<"d","e","f","e","c","t">>, <<"c","a","u","s","e">>>>)>>,
       <<Lit(<<<<"t","e","l","l">>, <<"s","h","o","w">>, <<"l","i","s","t">>, <<"g","i","v","e">>>>), Ws, OptLit(<<<<"m","e">>>>), Ws,
         Lit(<<<<"t","o","p">>, <<"h","i","g","h","e","s","t">>, <<"m","o","s","t">>>>), Ws, OptNum, Ws,
         Lit(<<<<"r","e","j","e","c","t","i","o","n">>, <<"d","e","f","e","c","t">>, <<"r","e","a","s","o","n">>>>)>>,
       <<Lit(<<<<"m","o","s","t">>>>), Ws, Lit(<<<<"f","r","e","q","u","e","n","t">>, <<"c","o","m","m","o","n">>>>), Ws, Lit(<<<<"r","e","j","e","c","t","i","o","n">>, <<"d","e","f","e","c","t">>>>)>>,
       <<Lit(<<<<"h","i","g","h","e","s","t">>>>), Ws, Lit(<<<<"r","e","j","e","c","t","i","o","n">>, <<"d","e","f","e","c","t">>>>)>>,
       <<Lit(<<<<"r","e","j","e","c","t","i","o","n">>, <<"d","e","f","e","c","t">>>>), Ws, Lit(<<<<"r","e","a","s","o","n">>>>)>>,
       <<Lit(<<<<"w","h","y">>, <<"w","h","a","t">>>>), Ws, AnyChars, Lit(<<<<"r","e","j","e","c","t">>, <<"f","a","i","l">>>>)>> >>

\* the positions a match can reach after one element, from the positions P
LitStep(el, s, P) ==
    UNION {{p + Len(el.alts[j]) : j \in {j \in 1..Len(el.alts) : StartsAt(s, p, el.alts[j])}} : p \in P}

ElementStep(el, s, P) ==
    CASE el.t = "lit" -> LitStep(el, s, P)
      [] el.t = "ws" -> UNION {p..SpaceRunEnd(s, p) : p \in P}
      [] el.t = "optnum" -> UNION {p..DigitRunEnd(s, p) : p \in P}
      [] el.t = "optlit" -> P \cup LitStep(el, s, P)
      [] el.t = "any" -> UNION {p..(Len(s) + 1) : p \in P}

RECURSIVE PatternEnds(_, _, _, _)
PatternEnds(pattern, k, s, P) ==
    IF k > Len(pattern) \/ P = {} THEN P
    ELSE PatternEnds(pattern, k + 1, s, ElementStep(pattern[k], s, P))

\* re.search(pattern, s) is not None
re_search(pattern, s) == PatternEnds(pattern, 1, s, 1..(Len(s) + 1)) # {}

\* re.findall(r'\d+', s): whether there is a number, and the first one
HasNumber(s) == \E i \in 1..Len(s) : IsDigit(s[i])

FirstNumber(s) ==
    LET i == CHOOSE i \in 1..Len(s) : IsDigit(s[i]) /\ \A j \in 1..(i - 1) : ~IsDigit(s[j])
    IN  int(SubSeq(s, i, DigitRunEnd(s, i) - 1))

Min(a, b) == IF a < b THEN a ELSE b

Max(a, b) == IF a > b THEN a ELSE b

\* min(max(requested_count, 1), 20)
limit_count(requested_count) == Min(Max(requested_count, 1), 20)

\* the loop over rejection_patterns
is_rejection_query(question_lower) ==
    \E k \in 1..Len(rejection_patterns) : re_search(rejection_patterns[k], question_lower)

rejection_requested_count(question_lower) ==
    IF HasNumber(question_lower) THEN limit_count(FirstNumber(question_lower)) ELSE 5

\* ------------------------------------------- EnhancedSmartAnalyzer: handlers
\* The dataset as the handlers see it: "loaded" (rows, and NumDefects defect columns
\* with occurrences), "empty" (no rows) or "none" (load_and_analyze_data failed and
\* left self.df = None, self.defect_columns = []).
DfStates == {"loaded", "empty", "none"}

\* active defect columns of a loaded dataset
NumDefects == 6

\* The first character of a response: an emoji, written by its code point.
CrossMark == "U+274C"

QuestionMark == "U+2753"

CheckMark == "U+2705"

Dart == "U+1F3AF"

BarChart == "U+1F4CA"

ChartUp == "U+1F4C8"

Wrench == "U+1F527"

\* A response: its first character, the template that produced it, whether it embeds
\* a chart image and how many rejection reasons it lists.
Response(head, template, chart, listed) ==
    [head |-> head, template |-> template, chart |-> chart, listed |-> listed]

NoResponse == Response("", "", FALSE, 0)

\* What one call did: the handlers entered (in order); the count handed to the last one
\* (<<>> when it takes none); the chart type and data focus handed to
\* create_smart_visualization; the chart drawn; the analysis generate_intelligent_response
\* made of the question; and how the call ended.
NoArg == "-"

\* the call did not analyse its question
NoAnalysis == [specific_count |-> None, chart_type |-> NoArg, data_focus |-> NoArg, question_type |-> NoArg]

Returned(handler, count, rendered, response) ==
    [outcome |-> "returned", calls |-> <<handler>>, count |-> count, chart_type |-> NoArg,
     data_focus |-> NoArg, rendered |-> rendered, analysis |-> NoAnalysis, response |-> response]

Raised(handler) ==
    [outcome |-> "raised", calls |-> <<handler>>, count |-> <<>>, chart_type |-> NoArg,
     data_focus |-> NoArg, rendered |-> NoArg, analysis |-> NoAnalysis, response |-> NoResponse]

\* a dispatcher's name goes in front of what its callee did
Via(name, result) == [result EXCEPT !.calls = <<name>> \o @]

\* len(sorted(defect_totals.items(), ...)[:count])
Sliced(n, count) == IF count = None THEN n ELSE Min(n, count)

get_top_rejection_reasons(count, df) ==
    LET done(r) == Returned("get_top_rejection_reasons", <<count>>, NoArg, r)
    IN  IF df # "loaded" THEN done(Response(CrossMark, "No defect data found in the dataset", FALSE, 0))
        ELSE IF Sliced(NumDefects, count) = 0
        THEN done(Response(CrossMark, "No rejection data available", FALSE, 0))
        ELSE done(Response(Dart, "Top N Rejection Reasons (Enhanced Analysis)", FALSE,
                           Sliced(NumDefects, count)))

create_intelligent_pie_chart(count, df, render) ==
    LET done(r) == Returned("create_intelligent_pie_chart", <<count>>, "pie", r)
    IN  IF df # "loaded" THEN done(Response(CrossMark, "No defect data available for pie chart", FALSE, 0))
        ELSE IF ~render THEN done(Response(CrossMark, "Error creating pie chart", FALSE, 0))
        ELSE done(Response(BarChart, "Smart Pie Chart Analysis", TRUE,
                           Sliced(NumDefects, Min(count, 10))))

create_intelligent_bar_chart(count, df, render) ==
    LET done(r) == Returned("create_intelligent_bar_chart", <<count>>, "bar", r)
    IN  IF df # "loaded" \/ ~render THEN done(Response(CrossMark, "Error creating bar chart", FALSE, 0))
        ELSE done(Response(BarChart, "Smart Bar Chart Analysis", TRUE, Sliced(NumDefects, count)))

create_intelligent_line_chart(df, render) ==
    LET done(r) == Returned("create_intelligent_line_chart", <<>>, "line", r)
    IN  IF df # "loaded" \/ ~render THEN done(Response(CrossMark, "Error creating trend chart", FALSE, 0))
        ELSE done(Response(ChartUp, "Smart Trend Analysis", TRUE, 0))

\* the selection, were the safe default taken for every focus
bar_by_default(question, chart_type, data_focus) == IF chart_type # "auto" THEN chart_type ELSE "bar"

\* the chart a request with chart_type 'auto' gets
smart_chart_selection(question, chart_type, data_focus) ==
    IF chart_type # "auto" THEN chart_type
    ELSE IF data_focus = "defects"
    THEN (IF Contains(lower(question), w_distribution) THEN "pie" ELSE "bar")
    ELSE IF data_focus = "trends" THEN "line"
    ELSE IF data_focus = "parts" THEN "bar"
    ELSE "bar"

create_smart_visualization(question, analysis, df, render) ==
    LET count == OrDefault(analysis.specific_count, 15)
        chart_type == smart_chart_selection(question, analysis.chart_type, analysis.data_focus)
        drawn == IF chart_type = "pie" THEN create_intelligent_pie_chart(count, df, render)
                 ELSE IF chart_type = "line" THEN create_intelligent_line_chart(df, render)
                 ELSE create_intelligent_bar_chart(count, df, render)
    IN  [Via("create_smart_visualization", drawn) EXCEPT
            !.chart_type = analysis.chart_type, !.data_focus = analysis.data_focus]

wants_chart(question) ==
    Contains(lower(question), w_chart) \/ Contains(lower(question), w_graph)

handle_defect_analysis(question, analysis, df, render) ==
    Via("handle_defect_analysis",
        IF wants_chart(question) THEN create_smart_visualization(question, analysis, df, render)
        ELSE get_top_rejection_reasons(OrDefault(analysis.specific_count, 5), df))

handle_parts_analysis(question, analysis, df, render) ==
    IF wants_chart(question)
    THEN Via("handle_parts_analysis", create_smart_visualization(question, analysis, df, render))
    ELSE IF Contains(lower(question), w_highest)
    THEN (IF df = "loaded"
          THEN Returned("handle_parts_analysis", <<>>, NoArg, Response(Wrench, "Highest Rejections", FALSE, 0))
          ELSE Raised("handle_parts_analysis"))
    ELSE Returned("handle_parts_analysis", <<>>, NoArg, Response(Wrench, "Parts analysis available", FALSE, 0))

handle_trend_analysis(question, analysis, df, render) ==
    IF wants_chart(question)
    THEN Via("handle_trend_analysis", create_smart_visualization(question, analysis, df, render))
    ELSE IF df = "loaded"
    THEN Returned("handle_trend_analysis", <<>>, NoArg, Response(ChartUp, "Trend", FALSE, 0))
    ELSE Raised("handle_trend_analysis")

\* analysis.get('specific_count', 5): the key is always present, so the default is never used
get_specific_count(analysis) == analysis.specific_count

\* analyze_question_semantically is a pure function of the question: its value for each
\* question is computed once
semantic_analysis == [question \in esa_questions |-> analyze_question_semantically(question)]

generate_intelligent_response(question, df, render) ==
    LET analysis == semantic_analysis[question]
    IN  [Via("generate_intelligent_response",
            IF analysis.question_type = "visualization" \/ AnyIn(lower(question), response_chart_words)
            THEN create_smart_visualization(question, analysis, df, render)
            ELSE IF analysis.data_focus = "defects" THEN handle_defect_analysis(question, analysis, df, render)
            ELSE IF analysis.data_focus = "parts" THEN handle_parts_analysis(question, analysis, df, render)
            ELSE IF analysis.data_focus = "trends" THEN handle_trend_analysis(question, analysis, df, render)
            ELSE get_top_rejection_reasons(get_specific_count(analysis), df))
         EXCEPT !.analysis = analysis]

EnhancedSmartAnalyzer_answer_question(question, df, render) ==
    LET question_lower == lower(question)
    IN  IF AnyIn(question_lower, answer_chart_words) THEN generate_intelligent_response(question, df, render)
        ELSE IF is_rejection_query(question_lower)
        THEN get_top_rejection_reasons(rejection_requested_count(question_lower), df)
        ELSE generate_intelligent_response(question, df, render)

\* ------------------------------------------- IntelligentDataAnalyzer: text and patterns

IsUpper(c) == c \in UpperChars

RECURSIVE UpperRunEnd(_, _)
UpperRunEnd(s, i) == IF i <= Len(s) /\ IsUpper(s[i]) THEN UpperRunEnd(s, i + 1) ELSE i

\* str(n) of a natural number
RECURSIVE str(_)
str(n) == IF n < 10 THEN <<DigitChars[n + 1]>> ELSE str(n \div 10) \o <<DigitChars[(n % 10) + 1]>>

\* str.title() of a lower-case word
title(word) == IF Len(word) = 0 THEN word
               ELSE <<CHOOSE c \in UpperChars : LowerOf[c] = word[1]>> \o SubSeq(word, 2, Len(word))

\* the smallest position of a non-empty set of positions
Leftmost(starts) == CHOOSE i \in starts : \A j \in starts : i <= j

\* a match object: its groups 1 and 2 (<<>> for a group that took no part); NoMatch is None
Match(group1, group2) == <<group1, group2>>

NoMatch == <<>>

\* [A-Z\s\d-]
InPartClass(c) == IsUpper(c) \/ IsSpace(c) \/ IsDigit(c) \/ c = "-"

RECURSIVE PartClassRunEnd(_, _)
PartClassRunEnd(s, i) == IF i <= Len(s) /\ InPartClass(s[i]) THEN PartClassRunEnd(s, i + 1) ELSE i

\* (?:-\d+)? read from position j: where it ends
DashNumberEnd(s, j) ==
    IF j + 1 <= Len(s) /\ s[j] = "-" /\ IsDigit(s[j + 1]) THEN DigitRunEnd(s, j + 1) ELSE j

\* [A-Z][A-Z\s\d-]+\d+(?:-\d+)? read from position i: the position after the match, 0 when
\* there is none. The greedy class run gives characters back down to its last digit.
PartNameEnd(s, i) ==
    IF ~(i <= Len(s) /\ IsUpper(s[i])) THEN 0
    ELSE LET e == PartClassRunEnd(s, i + 1)
             digits == {j \in (i + 2)..(e - 1) : IsDigit(s[j])}
         IN  IF digits = {} THEN 0
             ELSE DashNumberEnd(s, (CHOOSE j \in digits : \A k \in digits : k <= j) + 1)

\* re.search(r'([A-Z][A-Z\s\d-]+\d+(?:-\d+)?)', s)
part_name_search(s) ==
    LET starts == {i \in 1..Len(s) : PartNameEnd(s, i) # 0}
    IN  IF starts = {} THEN NoMatch
        ELSE Match(SubSeq(s, Leftmost(starts), PartNameEnd(s, Leftmost(starts)) - 1), <<>>)

part_number_words == <<<<"n","u","m","b","e","r">>, <<"n","a","m","e">>>>

\* part\s+(number|name)\s+ read from position i: the word taken and the position after
\* the second run of spaces, as a set (empty when it does not match)
PartNumberPrefix(s, i) ==
    {<<k, SpaceRunEnd(s, SpaceRunEnd(s, i + 4) + Len(part_number_words[k]))>> :
        k \in {k \in 1..Len(part_number_words) :
                 /\ StartsAt(s, i, <<"p","a","r","t">>)
                 /\ SpaceRunEnd(s, i + 4) > i + 4
                 /\ StartsAt(s, SpaceRunEnd(s, i + 4), part_number_words[k])
                 /\ SpaceRunEnd(s, SpaceRunEnd(s, i + 4) + Len(part_number_words[k]))
                      > SpaceRunEnd(s, i + 4) + Len(part_number_words[k])}}

\* re.search(r'part\s+(number|name)\s+([A-Z][A-Z\s\d-]+\d+(?:-\d+)?)', s)
part_number_search(s) ==
    LET hits == {<<i, m>> \in UNION {{<<i, m>> : m \in PartNumberPrefix(s, i)} : i \in 1..Len(s)} :
                    PartNameEnd(s, m[2]) # 0}
    IN  IF hits = {} THEN NoMatch
        ELSE LET i == Leftmost({h[1] : h \in hits})
                 m == CHOOSE m \in PartNumberPrefix(s, i) : <<i, m>> \in hits
             IN  Match(part_number_words[m[1]], SubSeq(s, m[2], PartNameEnd(s, m[2]) - 1))

\* [A-Z]{5,}\s*[A-Z]*\s*\d+(?:-\d+)? read from position i: the position after the match,
\* 0 when there is none
LongNameEnd(s, i) ==
    LET a == UpperRunEnd(s, i)
        d == SpaceRunEnd(s, UpperRunEnd(s, SpaceRunEnd(s, a)))
    IN  IF a - i >= 5 /\ DigitRunEnd(s, d) > d THEN DashNumberEnd(s, DigitRunEnd(s, d)) ELSE 0

\* re.search(r'([A-Z]{5,}\s*[A-Z]*\s*\d+(?:-\d+)?)', s)
long_name_search(s) ==
    LET starts == {i \in 1..Len(s) : LongNameEnd(s, i) # 0}
    IN  IF starts = {} THEN NoMatch
        ELSE Match(SubSeq(s, Leftmost(starts), LongNameEnd(s, Leftmost(starts)) - 1), <<>>)

\* a or b or c over match objects
FirstOf(a, b, c) == IF a # NoMatch THEN a ELSE IF b # NoMatch THEN b ELSE c

\* part_match.group(1) if part_match.group(1) else part_match.group(2)
first_group(match) == IF match[1] # <<>> THEN match[1] ELSE match[2]

\* re.search(r'top\s*(\d+)', s): group 1, <<>> when there is no match
top_number_search(s) ==
    LET starts == {i \in 1..Len(s) : StartsAt(s, i, w_top)
                       /\ DigitRunEnd(s, SpaceRunEnd(s, i + 3)) > SpaceRunEnd(s, i + 3)}
    IN  IF starts = {} THEN <<>>
        ELSE SubSeq(s, SpaceRunEnd(s, Leftmost(starts) + 3),
                    DigitRunEnd(s, SpaceRunEnd(s, Leftmost(starts) + 3)) - 1)

\* machine\s*(?:no\.?\s*)? read from position i: the positions where (\d+) may begin
MachinePrefixEnds(s, i) ==
    IF ~StartsAt(s, i, <<"m","a","c","h","i","n","e">>) THEN {}
    ELSE LET a == SpaceRunEnd(s, i + 7)
             b == IF StartsAt(s, a, <<"n","o",".">>) THEN a + 3 ELSE a + 2
         IN  {a} \cup (IF StartsAt(s, a, <<"n","o">>) THEN {SpaceRunEnd(s, b)} ELSE {})

\* re.search(r'machine\s*(?:no\.?\s*)?(\d+)', s): group 1, <<>> when there is no match
machine_number_search(s) ==
    LET hits == {<<i, p>> \in UNION {{<<i, p>> : p \in MachinePrefixEnds(s, i)} : i \in 1..Len(s)} :
                    p <= Len(s) /\ IsDigit(s[p])}
    IN  IF hits = {} THEN <<>>
        ELSE LET i == Leftmost({h[1] : h \in hits})
                 p == CHOOSE p \in MachinePrefixEnds(s, i) : <<i, p>> \in hits
             IN  SubSeq(s, p, DigitRunEnd(s, p) - 1)

IsQuote(c) == c = "\"" \/ c = "'"

RECURSIVE UnquotedRunEnd(_, _)
UnquotedRunEnd(s, i) == IF i <= Len(s) /\ ~IsQuote(s[i]) THEN UnquotedRunEnd(s, i + 1) ELSE i

\* ["\']([^"\']+)["\'] read from position i: the position of the closing quote, 0 for no match
QuotedEnd(s, i) ==
    IF i <= Len(s) /\ IsQuote(s[i]) /\ UnquotedRunEnd(s, i + 1) > i + 1
       /\ UnquotedRunEnd(s, i + 1) <= Len(s)
    THEN UnquotedRunEnd(s, i + 1) ELSE 0

\* (\d{8,}) read from position i
LongNumberAt(s, i) == DigitRunEnd(s, i) - i >= 8

\* re.search(r'["\']([^"\']+)["\']|(\d{8,})', s)
quoted_or_number_search(s) ==
    LET starts == {i \in 1..Len(s) : QuotedEnd(s, i) # 0 \/ LongNumberAt(s, i)}
    IN  IF starts = {} THEN NoMatch
        ELSE LET i == Leftmost(starts)
             IN  IF QuotedEnd(s, i) # 0 THEN Match(SubSeq(s, i + 1, QuotedEnd(s, i) - 1), <<>>)
                 ELSE Match(<<>>, SubSeq(s, i, DigitRunEnd(s, i) - 1))

\* ------------------------------------------- IntelligentDataAnalyzer: the dataset

\* The rows load_and_analyze_data reads when the file loads: date, part name, inspected
\* and rejected quantity. IntelligentDataAnalyzer is studied on "loaded" and "none".
records ==
    << [Date |-> <<2024, 3, 15>>, Part_Name |-> <<"P","A","R","T","-","1","0","0","1">>, Inspected_Qty |-> 400, Total_Rej_Qty |-> 300],
       [Date |-> <<2024, 3, 15>>, Part_Name |-> <<"B","R","K","-","7","7">>, Inspected_Qty |-> 300, Total_Rej_Qty |-> 120],
       [Date |-> <<2024, 4, 2>>, Part_Name |-> <<"P","A","R","T","-","1","0","0","1">>, Inspected_Qty |-> 300, Total_Rej_Qty |-> 200] >>

\* the defect columns found by identify_columns, by total, largest first
defect_columns == <<<<"B","u","r","r">>, <<"D","a","m","a","g","e">>, <<"T","o","o","l","m","a","r","k">>, <<"O","v","e","r","s","i","z","e">>, <<"U","n","d","e","r","s","i","z","e">>, <<"D","r","i","l","l","i","n","g">>>>

IdaDfStates == {"loaded", "none"}

Rows == 1..Len(records)

\* sum of a column over a set of rows
RECURSIVE SumRows(_, _)
SumRows(column, rows) ==
    IF rows = {} THEN 0
    ELSE LET r == CHOOSE r \in rows : TRUE IN column[r] + SumRows(column, rows \ {r})

Total_Rej(rows) == SumRows([r \in Rows |-> records[r].Total_Rej_Qty], rows)

Inspected(rows) == SumRows([r \in Rows |-> records[r].Inspected_Qty], rows)

\* the group with the largest total: groupby(key)['Total Rej Qty.'].sum().sort_values(ascending=False).index[0]
TopGroup(key(_)) ==
    CHOOSE g \in {key(r) : r \in Rows} :
        \A h \in {key(r) : r \in Rows} :
            Total_Rej({r \in Rows : key(r) = h}) <= Total_Rej({r \in Rows : key(r) = g})

PartOf(r) == records[r].Part_Name

DateOf(r) == records[r].Date

MonthOf(r) == <<records[r].Date[1], records[r].Date[2]>>

\* the order of dates and months
Before(a, b) == a[1] < b[1] \/ (a[1] = b[1] /\ a[2] < b[2])
                 \/ (Len(a) = 3 /\ a[1] = b[1] /\ a[2] = b[2] /\ a[3] < b[3])

first_month == CHOOSE m \in {MonthOf(r) : r \in Rows} : \A n \in {MonthOf(r) : r \in Rows} : ~Before(n, m)

last_month == CHOOSE m \in {MonthOf(r) : r \in Rows} : \A n \in {MonthOf(r) : r \in Rows} : ~Before(m, n)

\* self.df[self.df['Part Name'].str.contains(part_name, na=False, case=False)]
rows_of_part(part_name) == {r \in Rows : Contains(lower(PartOf(r)), lower(part_name))}

\* ------------------------------------------- IntelligentDataAnalyzer: dates

month_names ==
    <<<<"j","a","n","u","a","r","y">>, <<"f","e","b","r","u","a","r","y">>, <<"m","a","r","c","h">>, <<"a","p","r","i","l">>, <<"m","a","y">>, <<"j","u","n","e">>, <<"j","u","l","y">>, <<"a","u","g","u","s","t">>,
      <<"s","e","p","t","e","m","b","e","r">>, <<"o","c","t","o","b","e","r">>, <<"n","o","v","e","m","b","e","r">>, <<"d","e","c","e","m","b","e","r">>>>

TwoDigits(n) == IF n < 10 THEN <<"0">> \o str(n) ELSE str(n)

\* strftime('%Y-%m-%d')
iso_date(d) == str(d[1]) \o <<"-">> \o TwoDigits(d[2]) \o <<"-">> \o TwoDigits(d[3])

\* str() of a monthly period
iso_month(m) == str(m[1]) \o <<"-">> \o TwoDigits(m[2])

\* strftime('%B %d, %Y')
long_date(d) == title(month_names[d[2]]) \o <<" ">> \o TwoDigits(d[3]) \o <<","," ">> \o str(d[1])

days_in_month(year, month) ==
    IF month = 2 THEN (IF (year % 4 = 0 /\ year % 100 # 0) \/ year % 400 = 0 THEN 29 ELSE 28)
    ELSE IF month \in {4, 6, 9, 11} THEN 30 ELSE 31

\* datetime(year, month, day) does not raise ValueError
valid_date(year, month, day) == year >= 1 /\ day >= 1 /\ day <= days_in_month(year, month)

\* (january|...|december)\s+(\d{4}) read from position i: <<month, year>> matches
MonthYearAt(s, i) ==
    {<<m, int(SubSeq(s, SpaceRunEnd(s, i + Len(month_names[m])),
                     SpaceRunEnd(s, i + Len(month_names[m])) + 3))>> :
        m \in {m \in 1..Len(month_names) :
                 /\ StartsAt(s, i, month_names[m])
                 /\ SpaceRunEnd(s, i + Len(month_names[m])) > i + Len(month_names[m])
                 /\ DigitRunEnd(s, SpaceRunEnd(s, i + Len(month_names[m])))
                      >= SpaceRunEnd(s, i + Len(month_names[m])) + 4}}

\* re.search(r'(january|...|december)\s+(\d{4})', s): <<year, month>>, <<>> for no match
month_search(s) ==
    LET starts == {i \in 1..Len(s) : MonthYearAt(s, i) # {}}
    IN  IF starts = {} THEN <<>>
        ELSE LET my == CHOOSE my \in MonthYearAt(s, Leftmost(starts)) : TRUE
             IN  <<my[2], my[1]>>

\* [st|nd|rd|th]
IsOrdinalChar(c) == c \in {"s", "t", "|", "n", "d", "r", "h"}

RECURSIVE OrdinalRunEnd(_, _)
OrdinalRunEnd(s, i) == IF i <= Len(s) /\ IsOrdinalChar(s[i]) THEN OrdinalRunEnd(s, i + 1) ELSE i

\* (\d{1,2})[st|nd|rd|th]*\s+ read from position i with a day of n digits: where the month begins
DayPrefixEnd(s, i, n) ==
    IF DigitRunEnd(s, i) - i >= n
       /\ SpaceRunEnd(s, OrdinalRunEnd(s, i + n)) > OrdinalRunEnd(s, i + n)
    THEN SpaceRunEnd(s, OrdinalRunEnd(s, i + n)) ELSE 0

\* the day lengths with which the whole pattern matches at position i
DayLengthsAt(s, i) ==
    {n \in {1, 2} : DayPrefixEnd(s, i, n) # 0 /\ MonthYearAt(s, DayPrefixEnd(s, i, n)) # {}}

\* re.search(r'(\d{1,2})[st|nd|rd|th]*\s+(january|...|december)\s+(\d{4})', s):
\* <<year, month, day>>, <<>> for no match; two digits are tried before one
date_search(s) ==
    LET starts == {i \in 1..Len(s) : DayLengthsAt(s, i) # {}}
    IN  IF starts = {} THEN <<>>
        ELSE LET i == Leftmost(starts)
                 n == IF 2 \in DayLengthsAt(s, i) THEN 2 ELSE 1
                 my == CHOOSE my \in MonthYearAt(s, DayPrefixEnd(s, i, n)) : TRUE
             IN  <<my[2], my[1], int(SubSeq(s, i, i + n - 1))>>

\* ------------------------------------------- IntelligentDataAnalyzer: handlers

Magnifier == "U+1F50D"

Clipboard == "U+1F4CB"

Bullet == "U+2022"

NL == <<"\n">>

\* What a handler did: it returned a text, or it raised.
Text(text) == [outcome |-> "returned", text |-> text]

Raise(error) == [outcome |-> "raised", text |-> <<>>, error |-> error]

\* the message of the exception that reading self.df raises when the file did not load
not_subscriptable == <<"'","N","o","n","e","T","y","p","e","'"," ","o","b","j","e","c","t"," ","i","s"," ","n","o","t"," ","s","u","b","s","c","r","i","p","t","a","b","l","e">>

no_groupby == <<"'","N","o","n","e","T","y","p","e","'"," ","o","b","j","e","c","t"," ","h","a","s"," ","n","o"," ","a","t","t","r","i","b","u","t","e"," ","'","g","r","o","u","p","b","y","'">>

\* the message of the exception fig.to_image raises when the image cannot be rendered
no_image == <<"I","m","a","g","e"," ","e","x","p","o","r","t"," ","f","a","i","l","e","d">>

\* An answer is modelled up to the end of its headline and of the lines that name a part;
\* the lines left out print figures of the dataset.
analyze_part_rejection_reasons(part_name, df) ==
    IF df = "none"
    THEN <<CrossMark>> \o <<" ","*","*","E","r","r","o","r"," ","a","n","a","l","y","z","i","n","g"," ","p","a","r","t"," ","r","e","j","e","c","t","i","o","n","s",":","*","*"," ">> \o not_subscriptable
    ELSE IF rows_of_part(part_name) = {}
    THEN <<CrossMark>> \o <<" ","*","*","A","n","s","w","e","r",":","*","*"," ","N","o"," ","d","a","t","a"," ","f","o","u","n","d"," ","f","o","r"," ","p","a","r","t"," ","'">> \o part_name \o <<"'",".">>
    ELSE <<Magnifier>> \o <<" ","*","*","W","h","y"," ">> \o part_name \o <<" ","h","a","s"," ","t","h","e"," ","m","o","s","t"," ","r","e","j","e","c","t","i","o","n","s",":","*","*">> \o NL \o NL
         \o <<BarChart>> \o <<" ","*","*","O","v","e","r","a","l","l"," ","I","m","p","a","c","t",":","*","*">> \o NL
         \o <<Bullet>> \o <<" ","T","o","t","a","l"," ","r","e","j","e","c","t","i","o","n","s",":"," ">> \o str(Total_Rej(rows_of_part(part_name))) \o <<" ","p","a","r","t","s">> \o NL

get_part_detailed_analysis(part_name, df) ==
    IF df = "none"
    THEN <<CrossMark>> \o <<" ","*","*","E","r","r","o","r"," ","g","e","t","t","i","n","g"," ","d","e","t","a","i","l","e","d"," ","a","n","a","l","y","s","i","s",":","*","*"," ">> \o not_subscriptable
    ELSE IF rows_of_part(part_name) = {}
    THEN <<CrossMark>> \o <<" ","*","*","A","n","s","w","e","r",":","*","*"," ","N","o"," ","d","a","t","a"," ","f","o","u","n","d"," ","f","o","r"," ","p","a","r","t"," ","'">> \o part_name \o <<"'",".">>
    ELSE <<ChartUp>> \o <<" ","*","*","D","e","t","a","i","l","e","d"," ","A","n","a","l","y","s","i","s"," ","f","o","r"," ">> \o part_name \o <<":","*","*">> \o NL \o NL
         \o <<Bullet>> \o <<" ","P","r","o","d","u","c","t","i","o","n"," ","d","a","y","s"," ","t","r","a","c","k","e","d",":"," ">> \o str(Cardinality(rows_of_part(part_name))) \o NL
         \o <<Bullet>> \o <<" ","T","o","t","a","l"," ","p","a","r","t","s"," ","i","n","s","p","e","c","t","e","d",":"," ">> \o str(Inspected(rows_of_part(part_name))) \o NL
         \o <<Bullet>> \o <<" ","T","o","t","a","l"," ","r","e","j","e","c","t","i","o","n","s",":"," ">> \o str(Total_Rej(rows_of_part(part_name))) \o NL

handle_machine_questions(question, df) ==
    IF machine_number_search(lower(question)) # <<>>
    THEN Text(<<CrossMark>> \o <<" ","*","*","A","n","s","w","e","r",":","*","*"," ","M","a","c","h","i","n","e"," ","N","o","."," ">> \o machine_number_search(lower(question))
              \o <<" ","i","s"," ","n","o","t"," ","i","d","e","n","t","i","f","i","e","d"," ","i","n"," ","t","h","e"," ","d","a","t","a","."," ","T","h","e"," ","d","a","t","a","s","e","t"," ","t","r","a","c","k","s"," ","r","e","j","e","c","t","i","o","n","s"," ","b","y"," ","p","a","r","t"," ","n","a","m","e","s","/","c","o","m","p","o","n","e","n","t","s",","," ","n","o","t"," ","b","y"," ","s","p","e","c","i","f","i","c"," ","m","a","c","h","i","n","e"," ","n","u","m","b","e","r","s",".">>)
    ELSE IF Contains(lower(question), <<"t","h","i","s"," ","m","o","n","t","h">>)
    THEN (IF df = "none" THEN Raise("TypeError")
          ELSE Text(<<CrossMark>> \o <<" ","*","*","A","n","s","w","e","r",":","*","*"," ","N","o"," ","m","a","c","h","i","n","e"," ","i","d","e","n","t","i","f","i","e","r","s"," ","f","o","u","n","d"," ","i","n"," ","t","h","e"," ","d","a","t","a","."," ","T","h","e"," ","d","a","t","a","s","e","t"," ","o","n","l","y"," ","c","o","n","t","a","i","n","s"," ","p","a","r","t"," ","n","a","m","e","s","."," ","L","a","t","e","s","t"," ","a","v","a","i","l","a","b","l","e"," ","d","a","t","a"," ","i","s"," ","f","o","r"," ">>
                    \o iso_month(last_month) \o <<".">>))
    ELSE Text(<<CrossMark>> \o <<" ","*","*","A","n","s","w","e","r",":","*","*"," ","T","h","e"," ","d","a","t","a","s","e","t"," ","d","o","e","s"," ","n","o","t"," ","c","o","n","t","a","i","n"," ","m","a","c","h","i","n","e"," ","i","d","e","n","t","i","f","i","e","r","s","."," ","D","a","t","a"," ","i","s"," ","o","r","g","a","n","i","z","e","d"," ","b","y"," ","p","a","r","t"," ","n","a","m","e","s","/","c","o","m","p","o","n","e","n","t","s"," ","o","n","l","y",".">>)

handle_part_questions(question, df) ==
    LET part_match == quoted_or_number_search(question)
        part_num == first_group(part_match)
    IN  IF part_match # NoMatch
        THEN (IF df = "none" THEN Raise("TypeError")
              ELSE IF rows_of_part(part_num) # {}
              THEN Text(<<CheckMark>> \o <<" ","*","*","A","n","s","w","e","r",":","*","*"," ","P","a","r","t"," ","c","o","n","t","a","i","n","i","n","g"," ","'">> \o part_num \o <<"'"," ","h","a","s"," ">>
                        \o str(Total_Rej(rows_of_part(part_num))) \o <<" ","t","o","t","a","l"," ","r","e","j","e","c","t","i","o","n","s",".">>)
              ELSE Text(<<CrossMark>> \o <<" ","*","*","A","n","s","w","e","r",":","*","*"," ","P","a","r","t"," ","n","u","m","b","e","r"," ","'">> \o part_num \o <<"'"," ","n","o","t"," ","f","o","u","n","d"," ","i","n"," ","t","h","e"," ","d","a","t","a",".">>))
        ELSE IF Contains(lower(question), w_highest)
        THEN (IF df = "none" THEN Raise("AttributeError")
              ELSE Text(<<CheckMark>> \o <<" ","*","*","A","n","s","w","e","r",":","*","*"," ">> \o TopGroup(PartOf) \o <<" ","w","i","t","h"," ">>
                        \o str(Total_Rej(rows_of_part(TopGroup(PartOf)))) \o <<" ","t","o","t","a","l"," ","r","e","j","e","c","t","i","o","n","s",".">>))
        ELSE Text(<<QuestionMark>> \o <<" ","*","*","A","n","s","w","e","r",":","*","*"," ","P","l","e","a","s","e"," ","s","p","e","c","i","f","y"," ","t","h","e"," ","p","a","r","t"," ","n","u","m","b","e","r"," ","o","r"," ","p","r","o","v","i","d","e"," ","m","o","r","e"," ","d","e","t","a","i","l","s"," ","a","b","o","u","t"," ","t","h","e"," ","p","a","r","t",".">>)

\* ', '.join(parts[:3]) over the parts of a set of rows, in row order
RECURSIVE parts_involved(_, _, _)
parts_involved(rows, r, seen) ==
    IF r > Len(records) \/ Len(seen) = 3 THEN <<>>
    ELSE IF r \in rows /\ ~(\E k \in 1..Len(seen) : seen[k] = PartOf(r))
    THEN (IF Len(seen) = 0 THEN <<>> ELSE <<","," ">>) \o PartOf(r) \o parts_involved(rows, r + 1, Append(seen, PartOf(r)))
    ELSE parts_involved(rows, r + 1, seen)

handle_date_questions(question, df) ==
    LET date_match == date_search(lower(question))
        month_match == month_search(lower(question))
        date_data == {r \in Rows : DateOf(r) = date_match}
        month_data == {r \in Rows : MonthOf(r) = month_match}
    IN  IF date_match # <<>>
        THEN (IF ~valid_date(date_match[1], date_match[2], date_match[3]) \/ df = "none"
              THEN Text(<<CrossMark>> \o <<" ","*","*","A","n","s","w","e","r",":","*","*"," ","I","n","v","a","l","i","d"," ","d","a","t","e"," ","f","o","r","m","a","t",".">>)
              ELSE IF date_data # {}
              THEN Text(<<CheckMark>> \o <<" ","*","*","A","n","s","w","e","r",":","*","*"," ">> \o str(Total_Rej(date_data)) \o <<" ","r","e","j","e","c","t","i","o","n","s"," ","o","n"," ">>
                        \o long_date(date_match) \o <<"."," ","P","a","r","t","s"," ","i","n","v","o","l","v","e","d",":"," ">> \o parts_involved(date_data, 1, <<>>)
                        \o (IF Cardinality({PartOf(r) : r \in date_data}) > 3 THEN <<".",".",".">> ELSE <<>>))
              ELSE Text(<<CrossMark>> \o <<" ","*","*","A","n","s","w","e","r",":","*","*"," ","N","o"," ","d","a","t","a"," ","f","o","u","n","d"," ","f","o","r"," ">> \o long_date(date_match) \o <<".">>))
        ELSE IF month_match # <<>>
        THEN (IF df = "none" THEN Raise("TypeError")
              ELSE IF month_data # {}
              THEN Text(<<CheckMark>> \o <<" ","*","*","A","n","s","w","e","r",":","*","*"," ">> \o str(Total_Rej(month_data)) \o <<" ","r","e","j","e","c","t","i","o","n","s"," ","i","n"," ">>
                        \o title(month_names[month_match[2]]) \o <<" ">> \o str(month_match[1]) \o <<".">>)
              ELSE Text(<<CrossMark>> \o <<" ","*","*","A","n","s","w","e","r",":","*","*"," ","N","o"," ","d","a","t","a"," ","a","v","a","i","l","a","b","l","e"," ","f","o","r"," ">>
                        \o title(month_names[month_match[2]]) \o <<" ">> \o str(month_match[1]) \o <<".">>))
        ELSE IF Contains(lower(question), w_highest)
        THEN (IF df = "none" THEN Raise("AttributeError")
              ELSE Text(<<CheckMark>> \o <<" ","*","*","A","n","s","w","e","r",":","*","*"," ">> \o iso_date(TopGroup(DateOf)) \o <<" ","w","i","t","h"," ">>
                        \o str(Total_Rej({r \in Rows : DateOf(r) = TopGroup(DateOf)})) \o <<" ","r","e","j","e","c","t","i","o","n","s",".">>))
        ELSE Text(<<QuestionMark>> \o <<" ","*","*","A","n","s","w","e","r",":","*","*"," ","P","l","e","a","s","e"," ","s","p","e","c","i","f","y"," ","t","h","e"," ","d","a","t","e"," ","o","r"," ","t","i","m","e"," ","p","e","r","i","o","d"," ","y","o","u","'","r","e"," ","a","s","k","i","n","g"," ","a","b","o","u","t",".">>)

\* ------------------------------------------- IntelligentDataAnalyzer: charts and figures

\* the totals of the defect columns, in the order of defect_columns
defect_totals == <<250, 150, 100, 60, 40, 20>>

\* f"{num / den:.2f}" for a quotient with at most two decimals
fixed2(num, den) == str(num \div den) \o <<".">> \o TwoDigits(((num * 100) \div den) % 100)

chart_request_words == <<<<"c","h","a","r","t">>, <<"g","r","a","p","h">>, <<"p","l","o","t">>, <<"d","r","a","w">>, <<"c","r","e","a","t","e">>, <<"s","h","o","w">>, <<"v","i","s","u","a","l","i","z","e">>>>

analysis_chart_words == <<<<"c","h","a","r","t">>, <<"g","r","a","p","h">>, <<"p","l","o","t">>, <<"d","r","a","w">>, <<"c","r","e","a","t","e">>, <<"s","h","o","w">>>>

\* analyze_chart_request with the data type left open ('general') when no keyword decides it
analyze_chart_request_without_default(question) ==
    LET question_lower == lower(question)
        has(w) == Contains(question_lower, w)
    IN  [chart_type |-> IF has(<<"p","i","e">>) THEN <<"p","i","e">>
                        ELSE IF has(<<"l","i","n","e">>) \/ has(<<"t","r","e","n","d">>) THEN <<"l","i","n","e">>
                        ELSE <<"b","a","r">>,
         data_type |-> IF AnyIn(question_lower, <<<<"p","a","r","t">>, <<"c","o","m","p","o","n","e","n","t">>>>) THEN "parts"
                       ELSE IF AnyIn(question_lower, <<<<"t","r","e","n","d">>, <<"t","i","m","e">>, <<"m","o","n","t","h","l","y">>, <<"d","a","i","l","y">>, <<"o","v","e","r"," ","t","i","m","e">>>>)
                       THEN "trends"
                       ELSE IF AnyIn(question_lower, <<<<"d","e","f","e","c","t">>, <<"r","e","j","e","c","t","i","o","n">>, <<"r","e","a","s","o","n">>, <<"c","a","u","s","e">>>>)
                       THEN "rejections"
                       ELSE IF has(<<"m","o","n","t","h","l","y">>) THEN "monthly"
                       ELSE "general",
         count |-> IF top_number_search(question_lower) # <<>> THEN int(top_number_search(question_lower))
                   ELSE 15]

\* analyze_chart_request: the keys the chart builders read
analyze_chart_request(question) ==
    LET question_lower == lower(question)
        has(w) == Contains(question_lower, w)
    IN  [chart_type |-> IF has(<<"p","i","e">>) THEN <<"p","i","e">>
                        ELSE IF has(<<"l","i","n","e">>) \/ has(<<"t","r","e","n","d">>) THEN <<"l","i","n","e">>
                        ELSE <<"b","a","r">>,
         data_type |-> IF AnyIn(question_lower, <<<<"p","a","r","t">>, <<"c","o","m","p","o","n","e","n","t">>>>) THEN "parts"
                       ELSE IF AnyIn(question_lower, <<<<"t","r","e","n","d">>, <<"t","i","m","e">>, <<"m","o","n","t","h","l","y">>, <<"d","a","i","l","y">>, <<"o","v","e","r"," ","t","i","m","e">>>>)
                       THEN "trends"
                       ELSE IF AnyIn(question_lower, <<<<"d","e","f","e","c","t">>, <<"r","e","j","e","c","t","i","o","n">>, <<"r","e","a","s","o","n">>, <<"c","a","u","s","e">>>>)
                       THEN "rejections"
                       ELSE IF has(<<"m","o","n","t","h","l","y">>) THEN "monthly"
                       ELSE "rejections",
         count |-> IF top_number_search(question_lower) # <<>> THEN int(top_number_search(question_lower))
                   ELSE 15]

\* the second definition of the name in the class, which is the one in force
create_rejection_reasons_chart(question, chart_analysis, df, render) ==
    LET defect_names == SubSeq(defect_columns, 1, Min(chart_analysis.count, Len(defect_columns)))
    IN  IF df = "none" THEN <<CrossMark>> \o <<" ","*","*","E","r","r","o","r",":","*","*"," ","N","o"," ","d","e","f","e","c","t"," ","d","a","t","a"," ","f","o","u","n","d"," ","f","o","r"," ","c","h","a","r","t"," ","g","e","n","e","r","a","t","i","o","n",".">>
        ELSE IF ~render THEN <<CrossMark>> \o <<" ","*","*","E","r","r","o","r"," ","c","r","e","a","t","i","n","g"," ","r","e","j","e","c","t","i","o","n"," ","c","h","a","r","t",":","*","*"," ">> \o no_image
        ELSE IF Len(defect_names) = 0
        THEN <<CrossMark>> \o <<" ","*","*","E","r","r","o","r"," ","c","r","e","a","t","i","n","g"," ","r","e","j","e","c","t","i","o","n"," ","c","h","a","r","t",":","*","*"," ","l","i","s","t"," ","i","n","d","e","x"," ","o","u","t"," ","o","f"," ","r","a","n","g","e">>
        ELSE <<BarChart>> \o <<" ","*","*">> \o title(chart_analysis.chart_type) \o <<" ","C","h","a","r","t",":"," ","T","o","p"," ">> \o str(Len(defect_names))
             \o <<" ","R","e","j","e","c","t","i","o","n"," ","R","e","a","s","o","n","s","*","*">> \o NL \o NL

create_trend_chart(question, chart_analysis, df, render) ==
    IF df = "none" THEN <<CrossMark>> \o <<" ","*","*","E","r","r","o","r"," ","c","r","e","a","t","i","n","g"," ","t","r","e","n","d"," ","c","h","a","r","t",":","*","*"," ">> \o no_groupby
    ELSE IF ~render THEN <<CrossMark>> \o <<" ","*","*","E","r","r","o","r"," ","c","r","e","a","t","i","n","g"," ","t","r","e","n","d"," ","c","h","a","r","t",":","*","*"," ">> \o no_image
    ELSE <<ChartUp>> \o <<" ","*","*","T","r","e","n","d"," ","A","n","a","l","y","s","i","s"," ","C","h","a","r","t","*","*">> \o NL \o NL
         \o <<Dart>> \o <<" ","*","*","K","e","y"," ","I","n","s","i","g","h","t","s",":","*","*">> \o NL
         \o <<Bullet>> \o <<" ","T","r","e","n","d"," ","d","i","r","e","c","t","i","o","n",":"," ","*","*">>
         \o (IF Total_Rej({r \in Rows : MonthOf(r) = last_month})
                  < Total_Rej({r \in Rows : MonthOf(r) = first_month})
             THEN <<"i","m","p","r","o","v","i","n","g">> ELSE <<"w","o","r","s","e","n","i","n","g">>) \o <<"*","*">> \o NL

create_parts_analysis_chart(question, chart_analysis, df, render) ==
    IF df = "none" THEN <<CrossMark>> \o <<" ","*","*","E","r","r","o","r"," ","c","r","e","a","t","i","n","g"," ","p","a","r","t","s"," ","c","h","a","r","t",":","*","*"," ">> \o no_groupby
    ELSE IF ~render THEN <<CrossMark>> \o <<" ","*","*","E","r","r","o","r"," ","c","r","e","a","t","i","n","g"," ","p","a","r","t","s"," ","c","h","a","r","t",":","*","*"," ">> \o no_image
    ELSE IF chart_analysis.count = 0
    THEN <<CrossMark>> \o <<" ","*","*","E","r","r","o","r"," ","c","r","e","a","t","i","n","g"," ","p","a","r","t","s"," ","c","h","a","r","t",":","*","*"," ","s","i","n","g","l","e"," ","p","o","s","i","t","i","o","n","a","l"," ","i","n","d","e","x","e","r"," ","i","s"," ","o","u","t","-","o","f","-","b","o","u","n","d","s">>
    ELSE <<Wrench>> \o <<" ","*","*","P","a","r","t","s"," ","A","n","a","l","y","s","i","s"," ","C","h","a","r","t","*","*">> \o NL \o NL
         \o <<Dart>> \o <<" ","*","*","K","e","y"," ","I","n","s","i","g","h","t","s",":","*","*">> \o NL
         \o <<Bullet>> \o <<" ","W","o","r","s","t"," ","p","e","r","f","o","r","m","i","n","g"," ","p","a","r","t",":"," ","*","*">> \o TopGroup(PartOf) \o <<"*","*"," ","(">>
         \o str(Total_Rej(rows_of_part(TopGroup(PartOf)))) \o <<" ","r","e","j","e","c","t","i","o","n","s",")">> \o NL

create_defect_analysis_chart(question, chart_analysis, df, render) ==
    create_rejection_reasons_chart(question, chart_analysis, df, render)

create_monthly_analysis_chart(question, chart_analysis, df, render) ==
    create_trend_chart(question, chart_analysis, df, render)

create_smart_fallback_chart(question, df, render) ==
    IF AnyIn(lower(question), <<<<"p","a","r","t">>, <<"c","o","m","p","o","n","e","n","t">>>>)
    THEN create_parts_analysis_chart(question, analyze_chart_request(question), df, render)
    ELSE IF AnyIn(lower(question), <<<<"t","i","m","e">>, <<"t","r","e","n","d">>, <<"m","o","n","t","h","l","y">>>>)
    THEN create_trend_chart(question, analyze_chart_request(question), df, render)
    ELSE create_rejection_reasons_chart(question, analyze_chart_request(question), df, render)

\* the branch of generate_intelligent_chart that a chart_analysis takes
chart_branch(chart_analysis) ==
    IF chart_analysis.data_type = "rejections" THEN "create_rejection_reasons_chart"
    ELSE IF chart_analysis.data_type = "trends" THEN "create_trend_chart"
    ELSE IF chart_analysis.data_type = "parts" THEN "create_parts_analysis_chart"
    ELSE IF chart_analysis.data_type = "defects" THEN "create_defect_analysis_chart"
    ELSE IF chart_analysis.data_type = "monthly" THEN "create_monthly_analysis_chart"
    ELSE "create_smart_fallback_chart"

\* analyze_chart_request raises nothing, so the except clause is never entered
generate_intelligent_chart(question, df, render) ==
    LET chart_analysis == analyze_chart_request(question)
        branch == chart_branch(chart_analysis)
    IN  CASE branch = "create_rejection_reasons_chart"
               -> create_rejection_reasons_chart(question, chart_analysis, df, render)
          [] branch = "create_trend_chart" -> create_trend_chart(question, chart_analysis, df, render)
          [] branch = "create_parts_analysis_chart"
               -> create_parts_analysis_chart(question, chart_analysis, df, render)
          [] branch = "create_defect_analysis_chart"
               -> create_defect_analysis_chart(question, chart_analysis, df, render)
          [] branch = "create_monthly_analysis_chart"
               -> create_monthly_analysis_chart(question, chart_analysis, df, render)
          [] branch = "create_smart_fallback_chart" -> create_smart_fallback_chart(question, df, render)

defect_keywords ==
    <<<<"b","u","r","r">>, <<"d","a","m","a","g","e">>, <<"t","o","o","l","m","a","r","k">>, <<"o","v","e","r","s","i","z","e">>, <<"u","n","d","e","r","s","i","z","e">>, <<"d","r","i","l","l","i","n","g">>, <<"m","i","l","l","i","n","g">>, <<"b","o","r","i","n","g">>>>

\* the loop over defect_keywords: the column found (0: found_defect stays None)
RECURSIVE found_defect_from(_, _, _)
found_defect_from(k, question_lower, columns) ==
    IF k > Len(defect_keywords) THEN 0
    ELSE LET matching_cols == {c \in 1..Len(columns) : Contains(lower(columns[c]), defect_keywords[k])}
         IN  IF Contains(question_lower, defect_keywords[k]) /\ matching_cols # {}
             THEN Leftmost(matching_cols)
             ELSE found_defect_from(k + 1, question_lower, columns)

\* ', '.join(names)
RECURSIVE comma_join(_)
comma_join(names) ==
    IF Len(names) = 0 THEN <<>>
    ELSE IF Len(names) = 1 THEN names[1]
    ELSE names[1] \o <<","," ">> \o comma_join(SubSeq(names, 2, Len(names)))

\* a default fallback that names no ranking word
fallback_without_top == <<"r","e","j","e","c","t","i","o","n"," ","r","e","a","s","o","n","s">>

\* the question of the default fallback
fallback_question == <<"t","o","p"," ","5"," ","r","e","j","e","c","t","i","o","n"," ","r","e","a","s","o","n","s">>

\* the depth at which the interpreter ends a recursion with RecursionError
RecursionLimit == 3

\* One activation of handle_defect_questions, depth calls below the one answer_question
\* made: what it returns, and the depth of the activation that produced it.
RECURSIVE handle_defect_questions_at(_, _, _, _)
handle_defect_questions_at(question, df, render, depth) ==
    LET question_lower == lower(question)
        columns == IF df = "none" THEN <<>> ELSE defect_columns
        number_match == top_number_search(question_lower)
        count == IF number_match # <<>> THEN int(number_match) ELSE 5
        found_defect == found_defect_from(1, question_lower, columns)
        said(text) == [outcome |-> "returned", text |-> text, depth |-> depth]
    IN  IF AnyIn(question_lower, chart_request_words) THEN said(generate_intelligent_chart(question, df, render))
        ELSE IF AnyIn(question_lower, <<<<"t","o","p">>, <<"h","i","g","h","e","s","t">>, <<"m","o","s","t">>, <<"f","r","e","q","u","e","n","t">>>>)
        THEN said(IF Len(columns) = 0 THEN <<CrossMark>> \o <<" ","*","*","A","n","s","w","e","r",":","*","*"," ","N","o"," ","d","e","f","e","c","t"," ","d","a","t","a"," ","f","o","u","n","d"," ","i","n"," ","t","h","e"," ","d","a","t","a","s","e","t",".">>
              ELSE IF Min(count, Len(columns)) = 0 THEN <<CrossMark>> \o <<" ","*","*","A","n","s","w","e","r",":","*","*"," ","N","o"," ","r","e","j","e","c","t","i","o","n"," ","d","a","t","a"," ","a","v","a","i","l","a","b","l","e",".">>
              ELSE <<Dart>> \o <<" ","*","*","T","o","p"," ">> \o str(Min(count, Len(columns))) \o <<" ","R","e","j","e","c","t","i","o","n"," ","R","e","a","s","o","n","s",":","*","*">> \o NL \o NL)
        ELSE IF found_defect # 0
        THEN said(<<CheckMark>> \o <<" ","*","*","A","n","s","w","e","r",":","*","*"," ">> \o str(defect_totals[found_defect]) \o <<" ","p","a","r","t","s"," ","r","e","j","e","c","t","e","d"," ","d","u","e"," ","t","o"," ","'">>
             \o columns[found_defect] \o <<"'"," ","d","e","f","e","c","t",".">>)
        ELSE IF Contains(question_lower, <<"l","i","s","t">>) \/ Contains(question_lower, <<"a","l","l">>)
        THEN said(<<CheckMark>> \o <<" ","*","*","A","n","s","w","e","r",":","*","*"," ","A","v","a","i","l","a","b","l","e"," ","a","c","t","i","v","e"," ","d","e","f","e","c","t"," ","t","y","p","e","s"," ","(">> \o str(Len(columns)) \o <<" ","t","o","t","a","l",")",":"," ">>
             \o comma_join(SubSeq(columns, 1, Min(10, Len(columns))))
             \o (IF Len(columns) > 10 THEN <<".",".",".">> ELSE <<>>))
        ELSE IF depth = RecursionLimit
        THEN [outcome |-> "raised", text |-> <<>>, error |-> "RecursionError", depth |-> depth]
        ELSE handle_defect_questions_at(fallback_question, df, render, depth + 1)

\* the call answer_question makes
handle_defect_questions(question, df, render) == handle_defect_questions_at(question, df, render, 0)

handle_quantity_questions(question, df) ==
    LET has(w) == Contains(lower(question), w)
        june_data == {r \in Rows : MonthOf(r) = <<2024, 6>>}
        total_rej == Total_Rej(Rows)
    IN  IF df = "none" THEN Raise("TypeError")
        ELSE IF has(<<"j","u","n","e"," ","2","0","2","4">>)
        THEN (IF june_data # {}
              THEN Text(<<CheckMark>> \o <<" ","*","*","A","n","s","w","e","r",":","*","*"," ">> \o str(Total_Rej(june_data)) \o <<" ","r","e","j","e","c","t","i","o","n","s"," ","i","n"," ","J","u","n","e"," ","2","0","2","4",".">>)
              ELSE Text(<<CrossMark>> \o <<" ","*","*","A","n","s","w","e","r",":","*","*"," ","N","o"," ","d","a","t","a"," ","a","v","a","i","l","a","b","l","e"," ","f","o","r"," ","J","u","n","e"," ","2","0","2","4",".">>))
        ELSE IF has(<<"t","o","t","a","l">>) /\ (has(<<"r","e","j","e","c","t","e","d">>) \/ has(<<"r","e","j","e","c","t","i","o","n">>))
        THEN Text(<<CheckMark>> \o <<" ","*","*","A","n","s","w","e","r",":","*","*"," ","T","o","t","a","l"," ","r","e","j","e","c","t","i","o","n","s"," ","a","c","r","o","s","s"," ","a","l","l"," ","d","a","t","a",":"," ">> \o str(total_rej) \o <<" ","p","a","r","t","s",".">>)
        ELSE IF has(<<"t","o","t","a","l">>)
        THEN Text(<<CheckMark>> \o <<" ","*","*","A","n","s","w","e","r",":","*","*"," ","T","o","t","a","l"," ","r","e","j","e","c","t","i","o","n","s"," ","a","c","r","o","s","s"," ","a","l","l"," ","d","a","t","a",":"," ">> \o str(total_rej) \o <<" ","p","a","r","t","s",".">>)
        ELSE IF has(<<"t","h","i","s"," ","m","o","n","t","h">>)
        THEN Text(<<CheckMark>> \o <<" ","*","*","A","n","s","w","e","r",":","*","*"," ">> \o str(Total_Rej({r \in Rows : MonthOf(r) = last_month}))
                  \o <<" ","r","e","j","e","c","t","i","o","n","s"," ","i","n"," ">> \o iso_month(last_month) \o <<" ","(","l","a","t","e","s","t"," ","a","v","a","i","l","a","b","l","e"," ","m","o","n","t","h",")",".">>)
        ELSE Text(<<CheckMark>> \o <<" ","*","*","A","n","s","w","e","r",":","*","*"," ","T","o","t","a","l"," ","r","e","j","e","c","t","i","o","n","s"," ","i","n"," ","d","a","t","a","s","e","t",":"," ">> \o str(total_rej))

\* the part with the largest mean of 'Total Rej Qty.'
top_average_part ==
    CHOOSE p \in {PartOf(r) : r \in Rows} :
        \A q \in {PartOf(r) : r \in Rows} :
            Total_Rej({r \in Rows : PartOf(r) = q}) * Cardinality({r \in Rows : PartOf(r) = p})
                <= Total_Rej({r \in Rows : PartOf(r) = p}) * Cardinality({r \in Rows : PartOf(r) = q})

handle_analysis_questions(question, df, render) ==
    LET question_lower == lower(question)
    IN  IF AnyIn(question_lower, analysis_chart_words) THEN Text(generate_intelligent_chart(question, df, render))
        ELSE IF Contains(question_lower, <<"t","r","e","n","d">>)
        THEN (IF df = "none" THEN Raise("AttributeError")
              ELSE Text(<<CheckMark>> \o <<" ","*","*","A","n","s","w","e","r",":","*","*"," ","R","e","j","e","c","t","i","o","n"," ","t","r","e","n","d"," ","i","s"," ">>
                        \o (IF Total_Rej({r \in Rows : MonthOf(r) = last_month})
                                 > Total_Rej({r \in Rows : MonthOf(r) = first_month})
                            THEN <<"i","n","c","r","e","a","s","i","n","g">> ELSE <<"d","e","c","r","e","a","s","i","n","g">>)
                        \o <<"."," ","L","a","t","e","s","t"," ","m","o","n","t","h",":"," ">> \o str(Total_Rej({r \in Rows : MonthOf(r) = last_month}))
                        \o <<","," ","F","i","r","s","t"," ","m","o","n","t","h",":"," ">> \o str(Total_Rej({r \in Rows : MonthOf(r) = first_month}))))
        ELSE IF Contains(question_lower, w_highest) /\ Contains(question_lower, <<"a","v","e","r","a","g","e">>)
        THEN (IF df = "none" THEN Raise("AttributeError")
              ELSE Text(<<CheckMark>> \o <<" ","*","*","A","n","s","w","e","r",":","*","*"," ">> \o top_average_part
                        \o <<" ","h","a","s"," ","t","h","e"," ","h","i","g","h","e","s","t"," ","a","v","e","r","a","g","e"," ","d","a","i","l","y"," ","r","e","j","e","c","t","i","o","n",":"," ">>
                        \o fixed2(Total_Rej({r \in Rows : PartOf(r) = top_average_part}),
                                  Cardinality({r \in Rows : PartOf(r) = top_average_part}))
                        \o <<" ","p","a","r","t","s","/","d","a","y",".">>))
        ELSE Text(<<ChartUp>> \o <<" ","*","*","A","n","s","w","e","r",":","*","*"," ","A","n","a","l","y","s","i","s"," ","c","a","p","a","b","i","l","i","t","y"," ","a","v","a","i","l","a","b","l","e","."," ","P","l","e","a","s","e"," ","s","p","e","c","i","f","y"," ","w","h","a","t"," ","t","y","p","e"," ","o","f"," ","a","n","a","l","y","s","i","s"," ","y","o","u"," ","n","e","e","d",".">>)

handle_ratio_questions(question, df) ==
    IF Contains(lower(question), <<"r","e","j","e","c","t","i","o","n"," ","r","a","t","i","o">>)
    THEN (IF df = "none" THEN Raise("TypeError")
          ELSE Text(<<CheckMark>> \o <<" ","*","*","A","n","s","w","e","r",":","*","*"," ","O","v","e","r","a","l","l"," ","r","e","j","e","c","t","i","o","n"," ","r","a","t","i","o",":"," ">>
                    \o (IF Inspected(Rows) > 0 THEN fixed2(Total_Rej(Rows) * 100, Inspected(Rows)) ELSE <<"0",".","0","0">>)
                    \o <<"%"," ","(">> \o str(Total_Rej(Rows)) \o <<" ","r","e","j","e","c","t","e","d"," ","o","u","t"," ","o","f"," ">> \o str(Inspected(Rows)) \o <<" ","i","n","s","p","e","c","t","e","d",")",".">>))
    ELSE Text(<<BarChart>> \o <<" ","*","*","A","n","s","w","e","r",":","*","*"," ","R","a","t","i","o"," ","c","a","l","c","u","l","a","t","i","o","n"," ","a","v","a","i","l","a","b","l","e","."," ","P","l","e","a","s","e"," ","s","p","e","c","i","f","y"," ","w","h","a","t"," ","r","a","t","i","o"," ","y","o","u"," ","n","e","e","d",".">>)

\* ', '.join(self.metadata['months_available'])
months_available == IF first_month = last_month THEN iso_month(first_month)
                    ELSE iso_month(first_month) \o <<","," ">> \o iso_month(last_month)

first_date == CHOOSE d \in {DateOf(r) : r \in Rows} : \A e \in {DateOf(r) : r \in Rows} : ~Before(e, d)

last_date == CHOOSE d \in {DateOf(r) : r \in Rows} : \A e \in {DateOf(r) : r \in Rows} : ~Before(d, e)

\* self.metadata is {} when the file did not load
handle_general_questions(question, df) ==
    IF df = "none" THEN Raise("KeyError")
    ELSE Text(NL \o <<Clipboard>> \o <<" ","*","*","D","a","t","a"," ","S","u","m","m","a","r","y",":","*","*">> \o NL
              \o <<Bullet>> \o <<" ","T","o","t","a","l"," ","r","e","c","o","r","d","s",":"," ">> \o str(Len(records)) \o NL
              \o <<Bullet>> \o <<" ","D","a","t","e"," ","r","a","n","g","e",":"," ">> \o iso_date(first_date) \o <<" ","t","o"," ">> \o iso_date(last_date) \o NL
              \o <<Bullet>> \o <<" ","U","n","i","q","u","e"," ","p","a","r","t","s",":"," ">> \o str(Cardinality({PartOf(r) : r \in Rows})) \o NL
              \o <<Bullet>> \o <<" ","T","o","t","a","l"," ","r","e","j","e","c","t","i","o","n","s",":"," ">> \o str(Total_Rej(Rows)) \o NL
              \o <<Bullet>> \o <<" ","A","v","a","i","l","a","b","l","e"," ","m","o","n","t","h","s",":"," ">> \o months_available \o NL
              \o <<Bullet>> \o <<" ","D","e","f","e","c","t"," ","t","y","p","e","s"," ","t","r","a","c","k","e","d",":"," ">> \o str(Len(defect_columns)) \o NL
              \o NL
              \o <<QuestionMark>> \o <<" ","*","*","A","s","k"," ","m","e"," ","a","b","o","u","t",":","*","*">> \o NL
              \o <<"-"," ","S","p","e","c","i","f","i","c"," ","d","a","t","e","s",","," ","p","a","r","t","s",","," ","o","r"," ","d","e","f","e","c","t"," ","t","y","p","e","s">> \o NL
              \o <<"-"," ","T","r","e","n","d","s"," ","a","n","d"," ","a","n","a","l","y","s","i","s">> \o NL
              \o <<"-"," ","Q","u","a","n","t","i","t","i","e","s"," ","a","n","d"," ","r","a","t","i","o","s">> \o NL
              \o <<"-"," ","C","o","m","p","a","r","i","s","o","n","s"," ","b","e","t","w","e","e","n"," ","p","a","r","t","s"," ","o","r"," ","t","i","m","e"," ","p","e","r","i","o","d","s">> \o NL
              \o <<"-"," ","C","h","a","r","t","s"," ","a","n","d"," ","v","i","s","u","a","l","i","z","a","t","i","o","n","s"," ","(","b","a","r",","," ","p","i","e",","," ","l","i","n","e",","," ","t","r","e","n","d",")">> \o NL)

\* ------------------------------------------- questions put to IntelligentDataAnalyzer

\* intelligent_data_analyzer.py, test_analyzer: questions
questions ==
    << <<"W","h","a","t"," ","i","s"," ","t","h","e"," ","t","o","t","a","l"," ","n","u","m","b","e","r"," ","o","f"," ","r","e","j","e","c","t","e","d"," ","p","a","r","t","s"," ","f","o","r"," ","e","a","c","h"," ","m","a","c","h","i","n","e"," ","t","h","i","s"," ","m","o","n","t","h","?">>,
       <<"W","h","i","c","h"," ","p","a","r","t"," ","n","u","m","b","e","r"," ","h","a","d"," ","t","h","e"," ","h","i","g","h","e","s","t"," ","n","u","m","b","e","r"," ","o","f"," ","r","e","j","e","c","t","i","o","n","s"," ","o","v","e","r","a","l","l","?">>,
       <<"W","h","i","c","h"," ","d","a","t","e"," ","h","a","d"," ","t","h","e"," ","h","i","g","h","e","s","t"," ","r","e","j","e","c","t","i","o","n"," ","c","o","u","n","t","?">>,
       <<"H","o","w"," ","m","a","n","y"," ","r","e","j","e","c","t","i","o","n","s"," ","w","e","r","e"," ","r","e","c","o","r","d","e","d"," ","i","n"," ","t","h","e"," ","m","o","n","t","h"," ","o","f"," ","J","u","n","e"," ","2","0","2","4","?">>,
       <<"H","o","w"," ","m","a","n","y"," ","p","a","r","t","s"," ","w","e","r","e"," ","r","e","j","e","c","t","e","d"," ","d","u","e"," ","t","o"," ","B","u","r","r"," ","o","n"," ","M","a","c","h","i","n","e"," ","N","o","."," ","3","2","?">>,
       <<"W","h","a","t"," ","i","s"," ","t","h","e"," ","t","o","t","a","l"," ","r","e","j","e","c","t","i","o","n"," ","q","u","a","n","t","i","t","y"," ","f","o","r"," ","p","a","r","t"," ","n","u","m","b","e","r"," ","3","0","5","3","4","7","6","3","?">>,
       <<"S","h","o","w"," ","a","l","l"," ","r","e","j","e","c","t","i","o","n"," ","e","n","t","r","i","e","s"," ","f","o","r"," ","1","5","t","h"," ","M","a","r","c","h"," ","2","0","2","4">>,
       <<"W","h","i","c","h"," ","r","e","j","e","c","t","i","o","n"," ","r","e","a","s","o","n"," ","i","s"," ","t","h","e"," ","m","o","s","t"," ","f","r","e","q","u","e","n","t"," ","a","c","r","o","s","s"," ","a","l","l"," ","m","a","c","h","i","n","e","s","?">>,
       <<"W","h","a","t"," ","i","s"," ","t","h","e"," ","r","e","j","e","c","t","i","o","n"," ","r","a","t","i","o"," ","f","o","r"," ","t","h","e"," ","e","n","t","i","r","e"," ","d","a","t","a","s","e","t","?">>,
       <<"I","s"," ","t","h","e","r","e"," ","a"," ","t","r","e","n","d"," ","i","n"," ","r","e","j","e","c","t","i","o","n"," ","q","u","a","n","t","i","t","i","e","s"," ","o","v","e","r"," ","t","i","m","e","?">> >>

\* follow-up questions, and a question for every branch of answer_question
dialogue_questions ==
    << <<"w","h","i","c","h"," ","p","a","r","t"," ","h","a","s"," ","t","h","e"," ","h","i","g","h","e","s","t"," ","r","e","j","e","c","t","i","o","n","s","?">>, <<"w","h","y"," ","d","o","e","s"," ","t","h","i","s"," ","p","a","r","t"," ","f","a","i","l"," ","s","o"," ","m","u","c","h","?">>,
       <<"w","h","y","?">>, <<"t","e","l","l"," ","m","e"," ","a","b","o","u","t"," ","t","h","i","s"," ","p","a","r","t">>, <<"h","o","w"," ","m","a","n","y"," ","r","e","j","e","c","t","i","o","n","s"," ","f","o","r"," ","t","h","i","s"," ","p","a","r","t","?">>,
       <<"w","h","a","t"," ","c","a","u","s","e","d"," ","t","h","e"," ","r","e","j","e","c","t","i","o","n","s","?">>, <<"t","h","a","t"," ","p","a","r","t"," ","d","e","f","e","c","t">>, <<"w","h","i","c","h"," ","p","a","r","t"," ","l","o","w","e","s","t">>,
       <<"r","e","j","e","c","t","i","o","n"," ","f","o","r"," ","p","a","r","t"," ","\"","B","R","K","-","7","7","\"">>,
       <<"r","e","j","e","c","t","i","o","n","s"," ","o","n"," ","d","a","t","e"," ","1","5"," ","m","a","r","c","h"," ","2","0","2","4">>, <<"d","a","t","e"," ","3","1"," ","j","u","n","e"," ","2","0","2","4">>, <<"m","o","n","t","h"," ","m","a","r","c","h"," ","2","0","2","4">>,
       <<"s","h","o","w"," ","p","a","r","t","s"," ","c","h","a","r","t">>, <<"t","o","p"," ","3"," ","d","e","f","e","c","t">>, <<"l","i","s","t"," ","a","l","l"," ","d","e","f","e","c","t"," ","t","y","p","e","s">>, <<"d","e","f","e","c","t">>,
       <<"b","u","r","r">>, <<"s","h","o","w"," ","t","o","p"," ","0"," ","d","e","f","e","c","t"," ","c","h","a","r","t">>, <<"t","o","t","a","l"," ","q","u","a","n","t","i","t","y">>, <<"c","o","u","n","t">>, <<"r","e","j","e","c","t","i","o","n"," ","r","a","t","e">>,
       <<"w","h","a","t"," ","i","s"," ","t","h","e"," ","t","r","e","n","d"," ","a","n","a","l","y","s","i","s">>, <<"h","i","g","h","e","s","t"," ","a","v","e","r","a","g","e"," ","a","n","a","l","y","s","i","s">>, <<"p","i","e"," ","g","r","a","p","h">>,
       <<"m","a","c","h","i","n","e"," ","t","h","i","s"," ","m","o","n","t","h">>, <<"h","e","l","l","o"," ","t","h","e","r","e">> >>

\* a question that names its part by 'part number <value>'
resolution_questions == << <<"r","e","j","e","c","t","i","o","n"," ","f","o","r"," ","p","a","r","t"," ","n","u","m","b","e","r"," ","P","A","R","T","-","1","0","0","1">> >>

\* chart requests with keywords of two data types
data_type_questions == << <<"m","o","n","t","h","l","y"," ","c","h","a","r","t">>, <<"p","a","r","t"," ","t","r","e","n","d"," ","c","h","a","r","t">> >>

ida_questions ==
    Range(questions) \cup Range(dialogue_questions) \cup Range(resolution_questions)
    \cup Range(data_type_questions)

\* ------------------------------------------- IntelligentDataAnalyzer: answer_question

\* IntelligentDataAnalyzer.__init__; context.current_part is <<>> while the key is absent
initial_conversation_memory ==
    [last_question |-> <<>>, last_answer |-> <<>>, mentioned_parts |-> <<>>,
     context |-> [current_part |-> <<>>]]

context_words ==
    <<<<"w","h","y">>, <<"h","o","w">>, <<"w","h","a","t"," ","c","a","u","s","e","d">>, <<"r","e","a","s","o","n">>, <<"b","e","c","a","u","s","e">>, <<"t","h","i","s"," ","p","a","r","t">>, <<"t","h","a","t"," ","p","a","r","t">>,
      <<"w","h","y"," ","t","h","i","s">>, <<"w","h","y"," ","t","h","a","t">>>>

\* mentioned_parts.append(part_name) without the membership test of line 174
append_part(mentioned_parts, part_name) == Append(mentioned_parts, part_name)

\* if part_name not in mentioned_parts: mentioned_parts.append(part_name)
remember_part(mentioned_parts, part_name) ==
    IF \E k \in 1..Len(mentioned_parts) : mentioned_parts[k] = part_name THEN mentioned_parts
    ELSE Append(mentioned_parts, part_name)

\* the tests handle_contextual_questions makes on the question alone
context_cues(question) ==
    LET question_lower == lower(question)
        has(w) == Contains(question_lower, w)
    IN  [context_word |-> AnyIn(question_lower, context_words),
         why_rule |-> has(<<"w","h","y">>) /\ (has(<<"r","e","j","e","c","t","i","o","n">>) \/ has(w_most) \/ has(<<"t","h","i","s"," ","p","a","r","t">>)),
         how_many_rule |-> has(<<"h","o","w">>) /\ has(<<"m","a","n","y">>),
         cause_rule |-> has(<<"w","h","a","t"," ","c","a","u","s","e","d">>) \/ has(<<"r","e","a","s","o","n">>),
         pronoun |-> has(<<"t","h","i","s"," ","p","a","r","t">>) \/ has(<<"t","h","a","t"," ","p","a","r","t">>),
         pronoun_rule |-> has(<<"r","e","j","e","c","t","i","o","n">>) \/ has(<<"d","e","f","e","c","t">>),
         part_number |-> part_number_search(question_lower)]

\* the tests made on the question alone, computed once per question
question_cues == [question \in ida_questions |-> context_cues(question)]

\* part_match.group(1) if part_match.group(1) else part_match.group(2), stripped; found
\* tells whether `if part_match:` and `if part_name:` were both passed
resolved_part(part_match) ==
    IF part_match = NoMatch \/ first_group(part_match) = <<>> THEN [found |-> FALSE, part_name |-> <<>>]
    ELSE [found |-> TRUE, part_name |-> strip(first_group(part_match))]

\* the three searches, made of every last_answer whatever the question says
resolve_without_cue(cues, last_answer) ==
    resolved_part(FirstOf(part_name_search(last_answer), cues.part_number,
                          long_name_search(last_answer)))

\* the three searches joined by `or`. last_question was assigned the question before the
\* call, so the search of last_question is a search of the question.
resolve_part(cues, last_answer) ==
    IF cues.context_word /\ last_answer # <<>>
    THEN resolved_part(FirstOf(part_name_search(last_answer), cues.part_number,
                               long_name_search(last_answer)))
    ELSE resolved_part(NoMatch)

\* line 171 without lines 174-175: the part becomes the current part and is not listed
remember_current_only(memory, resolved) ==
    IF resolved.found THEN [memory EXCEPT !.context.current_part = resolved.part_name]
    ELSE memory

\* conversation_memory after lines 171-175
remember(memory, resolved) ==
    IF resolved.found
    THEN [memory EXCEPT !.context.current_part = resolved.part_name,
                        !.mentioned_parts = remember_part(@, resolved.part_name)]
    ELSE memory

\* the return value of handle_contextual_questions, <<>> for None
contextual_response(cues, resolved, current_part, df) ==
    IF resolved.found /\ cues.why_rule THEN analyze_part_rejection_reasons(resolved.part_name, df)
    ELSE IF resolved.found /\ cues.how_many_rule THEN get_part_detailed_analysis(resolved.part_name, df)
    ELSE IF resolved.found /\ cues.cause_rule THEN analyze_part_rejection_reasons(resolved.part_name, df)
    ELSE IF cues.pronoun /\ current_part # <<>> /\ cues.pronoun_rule
    THEN analyze_part_rejection_reasons(current_part, df)
    ELSE <<>>

contextual_outcome(cues, remembered, resolved, df) ==
    [response |-> contextual_response(cues, resolved, remembered.context.current_part, df),
     memory |-> remembered]

\* The response and the memory the call leaves behind.
handle_contextual_questions(question, memory, df) ==
    contextual_outcome(question_cues[question],
                       remember(memory, resolve_part(question_cues[question], memory.last_answer)),
                       resolve_part(question_cues[question], memory.last_answer), df)

\* the branch of answer_question a question takes when handle_contextual_questions
\* returned None
route(question_lower) ==
    LET has(w) == Contains(question_lower, w)
        any(words) == AnyIn(question_lower, words)
    IN  IF has(<<"m","a","c","h","i","n","e">>) THEN "handle_machine_questions"
        ELSE IF (has(<<"p","a","r","t">>) /\ (has(w_highest) \/ has(<<"l","o","w","e","s","t">>) \/ has(<<"r","e","j","e","c","t","i","o","n">>)))
                \/ has(<<"w","h","i","c","h"," ","p","a","r","t">>) \/ (has(<<"p","a","r","t"," ","n","u","m","b","e","r">>) /\ ~has(<<"t","o","t","a","l">>))
        THEN "handle_part_questions"
        ELSE IF any(<<<<"d","a","t","e">>, <<"d","a","y">>, <<"m","o","n","t","h">>, <<"y","e","a","r">>, <<"w","h","e","n">>>>) /\ ~has(<<"p","a","r","t">>)
        THEN "handle_date_questions"
        ELSE IF any(<<<<"r","e","a","s","o","n">>, <<"d","e","f","e","c","t">>, <<"b","u","r","r">>, <<"d","a","m","a","g","e">>, <<"t","o","o","l","m","a","r","k">>>>) /\ ~has(<<"p","a","r","t">>)
        THEN "handle_defect_questions"
        ELSE IF any(<<<<"t","o","t","a","l">>, <<"c","o","u","n","t">>, <<"n","u","m","b","e","r">>, <<"q","u","a","n","t","i","t","y">>, <<"h","o","w"," ","m","a","n","y">>>>) /\ ~has(<<"p","a","r","t">>)
        THEN "handle_quantity_questions"
        ELSE IF any(<<<<"d","a","t","e">>, <<"d","a","y">>>>) /\ any(<<w_highest, <<"l","o","w","e","s","t">>>>)
        THEN "handle_date_questions"
        ELSE IF any(<<<<"r","e","a","s","o","n">>, <<"d","e","f","e","c","t">>, <<"f","r","e","q","u","e","n","t">>>>) /\ any(<<w_highest, <<"l","o","w","e","s","t">>, w_most>>)
        THEN "handle_defect_questions"
        ELSE IF any(<<<<"r","a","t","i","o">>, <<"p","e","r","c","e","n","t","a","g","e">>, <<"r","a","t","e">>>>) THEN "handle_ratio_questions"
        ELSE IF any(<<<<"t","r","e","n","d">>, <<"a","n","a","l","y","s","i","s">>, <<"c","h","a","r","t">>, <<"g","r","a","p","h">>>>) THEN "handle_analysis_questions"
        ELSE "handle_general_questions"

\* the branches that assign the response to conversation_memory['last_answer']
recording_handlers ==
    {"handle_contextual_questions", "handle_machine_questions", "handle_part_questions",
     "handle_general_questions"}

\* what the handler of a branch does with the question
dispatch(handler, question, df, render) ==
    CASE handler = "handle_machine_questions" -> handle_machine_questions(question, df)
      [] handler = "handle_part_questions" -> handle_part_questions(question, df)
      [] handler = "handle_date_questions" -> handle_date_questions(question, df)
      [] handler = "handle_defect_questions" -> handle_defect_questions(question, df, render)
      [] handler = "handle_quantity_questions" -> handle_quantity_questions(question, df)
      [] handler = "handle_ratio_questions" -> handle_ratio_questions(question, df)
      [] handler = "handle_analysis_questions" -> handle_analysis_questions(question, df, render)
      [] handler = "handle_general_questions" -> handle_general_questions(question, df)

\* the assignment to last_answer that follows the handler in a recording branch; a
\* handler that raises leaves answer_question before it
record_answer(handler, result, memory) ==
    IF handler \in recording_handlers /\ result.outcome = "returned"
    THEN [memory EXCEPT !.last_answer = result.text]
    ELSE memory

\* the branch a question takes and what its handler does
routed_answer(question, df, render) ==
    [handler |-> route(lower(question)),
     result |-> dispatch(route(lower(question)), question, df, render)]

\* computed once per question, dataset and renderer
routed_answers ==
    [question \in ida_questions |->
        [df \in IdaDfStates |-> [render \in BOOLEAN |-> routed_answer(question, df, render)]]]

\* answer_question with the machine test of line 106 made before the test of line 101
answered_machine_first(question, contextual, routed) ==
    IF contextual.response # <<>> /\ routed.handler # "handle_machine_questions"
    THEN [question |-> question, handler |-> "handle_contextual_questions", outcome |-> "returned",
          text |-> contextual.response,
          memory |-> record_answer("handle_contextual_questions", Text(contextual.response),
                                   contextual.memory)]
    ELSE [question |-> question, handler |-> routed.handler, outcome |-> routed.result.outcome,
          text |-> routed.result.text,
          memory |-> record_answer(routed.handler, routed.result, contextual.memory)]

\* what answer_question returns and leaves behind, given what handle_contextual_questions
\* did and what the branches below it do
answered(question, contextual, routed) ==
    IF contextual.response # <<>>
    THEN [question |-> question, handler |-> "handle_contextual_questions", outcome |-> "returned",
          text |-> contextual.response,
          memory |-> record_answer("handle_contextual_questions", Text(contextual.response),
                                   contextual.memory)]
    ELSE [question |-> question, handler |-> routed.handler, outcome |-> routed.result.outcome,
          text |-> routed.result.text,
          memory |-> record_answer(routed.handler, routed.result, contextual.memory)]

\* One call: the handler that answered, what it did, and conversation_memory afterwards.
IntelligentDataAnalyzer_answer_question(question, memory, df, render) ==
    answered(question,
             handle_contextual_questions(question, [memory EXCEPT !.last_question = question], df),
             routed_answers[question][df][render])

\* ------------------------------------------------------------------ state

VARIABLES
    analyzer,               \* which class the session instantiated: "enhanced" or "intelligent"
    self_df,                \* self.df after __init__: "loaded", "empty" or "none"
    conversation_context,   \* EnhancedSmartAnalyzer.conversation_context
    esa_pc,                 \* the caller of EnhancedSmartAnalyzer: "ready", "answered",
                            \* or "answered_again" after it repeated its question
    esa_question,           \* the question of the call that was answered last
    esa_render,             \* whether fig.to_image could render in that call
    esa_result,             \* what that call did
    conversation_memory,    \* IntelligentDataAnalyzer.conversation_memory
    ida_turn                \* what the last call of IntelligentDataAnalyzer.answer_question did

esa_vars == <<conversation_context, esa_pc, esa_question, esa_render, esa_result>>

ida_vars == <<conversation_memory, ida_turn>>

vars == <<analyzer, self_df, esa_vars, ida_vars>>

\* EnhancedSmartAnalyzer.__init__
initial_conversation_context ==
    [last_question |-> <<>>, last_answer |-> <<>>, current_focus |-> "None",
     mentioned_entities |-> <<>>, chart_preferences |-> <<>>]

NoResult == Raised("")

\* no call yet
NoTurn == [question |-> <<>>, handler |-> "", outcome |-> "", text |-> <<>>]

EnhancedInit ==
    /\ conversation_context = initial_conversation_context
    /\ esa_pc = "ready"
    /\ esa_question = <<>>
    /\ esa_render = FALSE
    /\ esa_result = NoResult

IntelligentInit ==
    /\ conversation_memory = initial_conversation_memory
    /\ ida_turn = NoTurn

\* every answer the analyzer can give, computed once per question, dataset and renderer
esa_answers ==
    [question \in esa_questions |->
        [df \in DfStates |->
            [render \in BOOLEAN |-> EnhancedSmartAnalyzer_answer_question(question, df, render)]]]

\* self.answer_question(question) on an analyzer that has answered before, were
\* generate_intelligent_response to keep its analysis on self and
\* create_smart_visualization to write the chart type it selected into it
call_on_kept_analysis(question, render) ==
    LET call == esa_answers[question][self_df][render]
        kept == esa_result.analysis
    IN  IF call.analysis = NoAnalysis \/ kept = NoAnalysis THEN call
        ELSE [call EXCEPT !.analysis.chart_type =
                              smart_chart_selection(question, kept.chart_type, kept.data_focus)]

\* self.answer_question(question) on an analyzer that has answered before: the call
\* reads self.df and the patterns, which no call assigns
repeated_call(question, render) == esa_answers[question][self_df][render]

\* answer_question with its question kept in conversation_context['last_question']
context_keeping_question(context, question) == [context EXCEPT !.last_question = question]

\* self.conversation_context after answer_question(question): neither answer_question nor
\* a method it calls assigns to it
context_after_call(context, question) == context

\* One call of EnhancedSmartAnalyzer.answer_question. No statement of the class assigns
\* to self.conversation_context after __init__.
ESA_answer_question ==
    /\ analyzer = "enhanced"
    /\ esa_pc = "ready"
    /\ \E question \in esa_questions, render \in BOOLEAN :
        /\ esa_question' = question
        /\ esa_render' = render
        /\ esa_result' = esa_answers[question][self_df][render]
        /\ conversation_context' = context_after_call(conversation_context, question)
    /\ esa_pc' = "answered"
    /\ UNCHANGED <<analyzer, self_df, ida_vars>>

\* The caller takes the response (or catches the exception) and goes on to its next
\* question; nothing of the call is kept.
ESA_next_question ==
    /\ analyzer = "enhanced"
    /\ esa_pc \in {"answered", "answered_again"}
    /\ esa_pc' = "ready"
    /\ esa_question' = <<>>
    /\ esa_render' = FALSE
    /\ esa_result' = NoResult
    /\ UNCHANGED <<analyzer, self_df, conversation_context, ida_vars>>

\* The caller puts the question it has just asked once more, to the same analyzer:
\* answer_question runs again from its first line.
ESA_ask_again ==
    /\ analyzer = "enhanced"
    /\ esa_pc \in {"answered", "answered_again"}
    /\ \E render \in BOOLEAN :
        /\ esa_render' = render
        /\ esa_result' = repeated_call(esa_question, render)
    /\ conversation_context' = context_after_call(conversation_context, esa_question)
    /\ esa_pc' = "answered_again"
    /\ UNCHANGED <<analyzer, self_df, esa_question, ida_vars>>

\* the outcomes of fig.to_image that a call can tell apart: both where the branch of the
\* question draws a chart, one where it draws none
render_outcomes(question, df) ==
    IF routed_answers[question][df][TRUE] = routed_answers[question][df][FALSE] THEN {TRUE}
    ELSE BOOLEAN

\* One call of IntelligentDataAnalyzer.answer_question, whether it returns or raises:
\* the caller goes on with the same analyzer.
IDA_answer_question ==
    /\ analyzer = "intelligent"
    /\ \E question \in ida_questions : \E render \in render_outcomes(question, self_df) :
        \E call \in {IntelligentDataAnalyzer_answer_question(question, conversation_memory, self_df, render)} :
            /\ conversation_memory' = call.memory
            /\ ida_turn' = [question |-> call.question, handler |-> call.handler,
                            outcome |-> call.outcome, text |-> call.text]
    /\ UNCHANGED <<analyzer, self_df, esa_vars>>

Init ==
    /\ analyzer \in {"enhanced", "intelligent"}
    /\ self_df \in (IF analyzer = "enhanced" THEN DfStates ELSE IdaDfStates)
    /\ EnhancedInit
    /\ IntelligentInit

Next == ESA_answer_question \/ ESA_next_question \/ ESA_ask_again \/ IDA_answer_question

Spec == Init /\ [][Next]_vars

\* ------------------------------------------------------------------ properties

\* C1: when the answer of one turn of IntelligentDataAnalyzer mentions an entity-shaped
\* part identifier P and the question of the next turn contains 'why' together with
\* 'this part', the next answer is analyze_part_rejection_reasons(P), given by
\* handle_contextual_questions, and not a summary of the dataset.
C1_ContextCarryOver ==
    [][LET P == part_name_search(ida_turn.text)
           next_question == lower(ida_turn'.question)
       IN  (/\ analyzer = "intelligent"
            /\ ida_turn.outcome = "returned"
            /\ P # NoMatch
            /\ Contains(next_question, <<"w","h","y">>)
            /\ Contains(next_question, <<"t","h","i","s"," ","p","a","r","t">>))
           => /\ ida_turn'.handler = "handle_contextual_questions"
              /\ ida_turn'.text = analyze_part_rejection_reasons(strip(P[1]), self_df)]_vars

\* C2: once a call of answer_question has returned, whichever branch answered it,
\* last_question is the question of the call and last_answer is the answer it returned.
C2_TurnRecorded ==
    /\ (analyzer = "intelligent" /\ ida_turn.outcome = "returned")
         => /\ conversation_memory.last_question = ida_turn.question
            /\ conversation_memory.last_answer = ida_turn.text
    /\ (analyzer = "enhanced" /\ esa_pc = "answered" /\ esa_result.outcome = "returned")
         => /\ conversation_context.last_question = esa_question
            /\ (conversation_context.last_answer = <<>>) = (esa_result.response.head = "")

\* C3: a count N stated in the question reaches the handler of
\* EnhancedSmartAnalyzer.answer_question as a count in 1..20, on every path: 20 when
\* N > 20 and 1 when N = 0.
C3_CountClamped ==
    (/\ esa_pc = "answered"
     /\ semantic_analysis[esa_question].specific_count # None
     /\ esa_result.count # <<>>)
    => LET N == semantic_analysis[esa_question].specific_count
           count == esa_result.count[1]
       IN  /\ count \in 1..20
           /\ N > 20 => count = 20
           /\ N = 0 => count = 1

\* C4: in a fresh session a question that depends on the context ('why?', 'this part')
\* is answered by a request for clarification: the call returns, the answer carries the
\* question-mark marker, and no part is selected.
C4_FreshSessionClarifies ==
    [][(/\ analyzer = "intelligent"
        /\ conversation_memory = initial_conversation_memory
        /\ ida_turn'.question \in ida_questions
        /\ AnyIn(lower(ida_turn'.question), context_words))
       => /\ ida_turn'.outcome = "returned"
          /\ ida_turn'.text # <<>>
          /\ ida_turn'.text[1] = QuestionMark
          /\ conversation_memory'.context.current_part = <<>>
          /\ conversation_memory'.mentioned_parts = <<>>]_vars

\* C5: a question that matches no keyword on any axis (question type general, data
\* focus auto, chart type auto, no count) is answered by get_top_rejection_reasons with
\* a count of exactly 5, and the answer is the summary of rejection reasons.
C5_FallbackSummary ==
    (/\ esa_pc = "answered"
     /\ semantic_analysis[esa_question] =
            [specific_count |-> None, chart_type |-> "auto", data_focus |-> "auto",
             question_type |-> "general"])
    => /\ esa_result.outcome = "returned"
       /\ esa_result.calls[Len(esa_result.calls)] = "get_top_rejection_reasons"
       /\ esa_result.count = <<5>>
       /\ esa_result.response.head = Dart

\* C6: a call that entered the charting, defect, parts or trend handler returns with a
\* response: no exception of a handler reaches the caller of answer_question.
C6_HandlerFailureContained ==
    (/\ esa_pc = "answered"
     /\ \E k \in 1..Len(esa_result.calls) :
            esa_result.calls[k] \in {"create_smart_visualization", "handle_defect_analysis",
                                     "handle_parts_analysis", "handle_trend_analysis"})
    => /\ esa_result.outcome = "returned"
       /\ esa_result.response.head # ""

\* C7: mentioned_parts holds no part twice and only grows at its tail: its value before
\* a turn is a prefix of its value after the turn.
C7_AppendOnce ==
    [][LET before == conversation_memory.mentioned_parts
           after == conversation_memory'.mentioned_parts
       IN  /\ Len(before) <= Len(after)
           /\ SubSeq(after, 1, Len(before)) = before
           /\ \A i, j \in 1..Len(after) : after[i] = after[j] => i = j]_vars

\* a part resolved again after a second part was appended: it is still listed once, first
C7_ResolvedAgain ==
    /\ Len(conversation_memory.mentioned_parts) = 2
    /\ conversation_memory.context.current_part = conversation_memory.mentioned_parts[1]
    /\ ida_turn.handler = "handle_contextual_questions"

\* C8: a question with one of the cue words chart, graph, plot, draw, show, visualize is
\* answered through create_smart_visualization with the chart type and data focus of its
\* analysis and with the count it states, 15 when it states none; the response carries
\* a chart whenever the dataset is loaded and the image renders.
C8_ChartDispatch ==
    (/\ esa_pc = "answered"
     /\ AnyIn(lower(esa_question),
              <<<<"c","h","a","r","t">>, <<"g","r","a","p","h">>, <<"p","l","o","t">>, <<"d","r","a","w">>, <<"s","h","o","w">>, <<"v","i","s","u","a","l","i","z","e">>>>))
    => LET analysis == semantic_analysis[esa_question]
       IN  /\ \E k \in 1..Len(esa_result.calls) : esa_result.calls[k] = "create_smart_visualization"
           /\ esa_result.chart_type = analysis.chart_type
           /\ esa_result.data_focus = analysis.data_focus
           /\ esa_result.count # <<>>
                => esa_result.count[1] = (IF analysis.specific_count # None
                                          THEN analysis.specific_count ELSE 15)
           /\ (self_df = "loaded" /\ esa_render) => esa_result.response.chart

\* C9: every call of EnhancedSmartAnalyzer.answer_question returns a response that is
\* not empty and does not begin with the question-mark marker.
C9_AlwaysAnswers ==
    esa_pc = "answered"
    => /\ esa_result.outcome = "returned"
       /\ esa_result.response.head # ""
       /\ esa_result.response.head # QuestionMark

\* C10: the question type is the first of comparison, ranking, quantity, analysis,
\* visualization, specific, temporal that has a keyword in the lower-cased question,
\* and general when none has.
C10_FirstMatchOrder ==
    esa_pc = "answered"
    => LET order == <<"comparison", "ranking", "quantity", "analysis", "visualization",
                      "specific", "temporal">>
           question_lower == strip(lower(esa_question))
           matches(category) ==
               \E k \in 1..Len(question_types) :
                   /\ question_types[k].q_type = category
                   /\ AnyIn(question_lower, question_types[k].keywords)
           hits == {i \in 1..Len(order) : matches(order[i])}
       IN  semantic_analysis[esa_question].question_type =
               (IF hits = {} THEN "general" ELSE order[CHOOSE i \in hits : \A j \in hits : i <= j])

\* a question with a keyword of ranking ('top') and one of visualization ('chart')
C10_EarlierCategoryWins ==
    /\ esa_pc = "answered"
    /\ Contains(lower(esa_question), w_top)
    /\ Contains(lower(esa_question), w_chart)
    /\ semantic_analysis[esa_question].question_type = "ranking"

\* the visualization cue words of generate_intelligent_response, as the claims list them
cue_words == <<<<"c","h","a","r","t">>, <<"g","r","a","p","h">>, <<"p","l","o","t">>, <<"d","r","a","w">>, <<"s","h","o","w">>, <<"v","i","s","u","a","l","i","z","e">>>>

\* C11: in generate_intelligent_response a question without a visualization cue word
\* goes to exactly one handler, chosen by its data focus: defects to the rejection-reason
\* handler with the count it states (5 when it states none), parts to
\* handle_parts_analysis, trends to handle_trend_analysis, any other focus to the
\* rejection-reason handler.
C11_FocusDispatch ==
    (/\ esa_pc = "answered"
     /\ esa_result.calls[1] = "generate_intelligent_response"
     /\ ~AnyIn(lower(esa_question), cue_words))
    => LET analysis == semantic_analysis[esa_question]
           calls == esa_result.calls
       IN  /\ analysis.data_focus = "defects"
                => /\ calls = <<"generate_intelligent_response", "handle_defect_analysis",
                                "get_top_rejection_reasons">>
                   /\ esa_result.count =
                          <<IF analysis.specific_count # None THEN analysis.specific_count ELSE 5>>
           /\ analysis.data_focus = "parts"
                => calls = <<"generate_intelligent_response", "handle_parts_analysis">>
           /\ analysis.data_focus = "trends"
                => calls = <<"generate_intelligent_response", "handle_trend_analysis">>
           /\ analysis.data_focus \notin {"defects", "parts", "trends"}
                => calls = <<"generate_intelligent_response", "get_top_rejection_reasons">>

\* C12: a question without a visualization cue word whose data focus is parts is
\* answered through handle_parts_analysis, with the part of highest rejections when it
\* says 'highest', and never by get_top_rejection_reasons.
C12_PartsToPartHandler ==
    (/\ esa_pc = "answered"
     /\ ~AnyIn(lower(esa_question), cue_words)
     /\ semantic_analysis[esa_question].data_focus = "parts")
    => /\ \E k \in 1..Len(esa_result.calls) : esa_result.calls[k] = "handle_parts_analysis"
       /\ \A k \in 1..Len(esa_result.calls) : esa_result.calls[k] # "get_top_rejection_reasons"
       /\ (Contains(lower(esa_question), <<"h","i","g","h","e","s","t">>) /\ esa_result.outcome = "returned")
            => esa_result.response.template = "Highest Rejections"

\* C13: a question that contains 'distribution' and 'top', scores pie and bar equally on
\* keywords and phrases and matches nothing of line or scatter has chart type pie, on
\* every call.
C13_PieBeatsBar ==
    LET question_lower == strip(lower(esa_question))
        score(label) == PatternScore(chart_type_patterns[label], question_lower)
    IN  (/\ esa_pc = "answered"
         /\ Contains(question_lower, <<"d","i","s","t","r","i","b","u","t","i","o","n">>)
         /\ Contains(question_lower, <<"t","o","p">>)
         /\ score("pie") = score("bar")
         /\ score("line") = 0
         /\ score("scatter") = 0
         /\ ~AnyIn(question_lower, line_bonus_words))
        => /\ semantic_analysis[esa_question].chart_type = "pie"
           /\ esa_result.analysis # NoAnalysis => esa_result.analysis.chart_type = "pie"

\* a question with 'distribution' and 'top', pie and bar level, was analysed
C13_LevelScores ==
    /\ esa_pc = "answered"
    /\ Contains(lower(esa_question), <<"d","i","s","t","r","i","b","u","t","i","o","n">>)
    /\ Contains(lower(esa_question), <<"t","o","p">>)
    /\ PatternScore(chart_type_patterns["pie"], lower(esa_question))
         = PatternScore(chart_type_patterns["bar"], lower(esa_question))
    /\ esa_result.analysis # NoAnalysis
    /\ esa_result.analysis.chart_type = "pie"

RECURSIVE words_from(_, _)
words_from(s, i) ==
    IF i > Len(s) THEN <<>>
    ELSE IF IsSpace(s[i]) THEN words_from(s, i + 1)
    ELSE LET e == CHOOSE e \in i..Len(s) :
                      /\ \A j \in i..e : ~IsSpace(s[j])
                      /\ e = Len(s) \/ IsSpace(s[e + 1])
         IN  <<SubSeq(s, i, e)>> \o words_from(s, e + 1)

\* the keywords of an axis
axis_vocabulary(patterns, labels) == UNION {Range(patterns[labels[i]].keywords) : i \in 1..Len(labels)}

\* a question without its words that belong to a vocabulary
without_vocabulary(question, vocabulary) ==
    SelectSeq(words_from(lower(question), 1), LAMBDA word : word \notin vocabulary)

without_chart_words ==
    [question \in esa_questions |->
        without_vocabulary(question, axis_vocabulary(chart_type_patterns, chart_labels))]

without_focus_words ==
    [question \in esa_questions |->
        without_vocabulary(question, axis_vocabulary(data_focus_patterns, focus_labels))]

\* C15: two questions that differ only in words of the chart-type vocabulary have the
\* same data focus, and two questions that differ only in words of the data-focus
\* vocabulary have the same chart type.
C15_AxisIndependence ==
    esa_pc = "answered"
    => \A other \in esa_questions :
        /\ without_chart_words[other] = without_chart_words[esa_question]
             => semantic_analysis[other].data_focus = semantic_analysis[esa_question].data_focus
        /\ without_focus_words[other] = without_focus_words[esa_question]
             => semantic_analysis[other].chart_type = semantic_analysis[esa_question].chart_type

\* the context cue words, as the claim lists them
reference_cues ==
    <<<<"w","h","y">>, <<"h","o","w">>, <<"t","h","i","s"," ","p","a","r","t">>, <<"t","h","a","t"," ","p","a","r","t">>, <<"w","h","a","t"," ","c","a","u","s","e","d">>, <<"r","e","a","s","o","n">>, <<"b","e","c","a","u","s","e">>>>

\* C16: handle_contextual_questions answers a turn, or changes the current part or the
\* mentioned parts, only when the question holds a context cue word and last_answer was
\* not empty before the turn; a current part is only ever set beside a non-empty
\* last_answer.
C16_ResolutionGuarded ==
    [][(/\ analyzer = "intelligent"
        /\ \/ ida_turn'.handler = "handle_contextual_questions"
           \/ conversation_memory'.context # conversation_memory.context
           \/ conversation_memory'.mentioned_parts # conversation_memory.mentioned_parts)
       => /\ AnyIn(lower(ida_turn'.question), reference_cues)
          /\ conversation_memory.last_answer # <<>>
          /\ conversation_memory'.context.current_part # <<>>
               => conversation_memory'.last_answer # <<>>]_vars

\* a turn answered for the current part through 'that part'
C16_PronounTurn ==
    /\ ida_turn.handler = "handle_contextual_questions"
    /\ Contains(lower(ida_turn.question), <<"t","h","a","t"," ","p","a","r","t">>)
    /\ conversation_memory.context.current_part # <<>>
    /\ conversation_memory.last_answer = ida_turn.text

\* C17: a question with 'this part' or 'that part', put when a current part E is set,
\* leaves E the current part, and an answer of handle_contextual_questions to it is an
\* answer about E, whatever part last_answer mentions.
C17_PronounReuse ==
    [][LET E == conversation_memory.context.current_part
           next_question == lower(ida_turn'.question)
       IN  (/\ analyzer = "intelligent"
            /\ E # <<>>
            /\ ida_turn'.question \in ida_questions
            /\ Contains(next_question, <<"t","h","i","s"," ","p","a","r","t">>) \/ Contains(next_question, <<"t","h","a","t"," ","p","a","r","t">>))
           => /\ conversation_memory'.context.current_part = E
              /\ ida_turn'.handler = "handle_contextual_questions"
                   => ida_turn'.text \in {analyze_part_rejection_reasons(E, self_df),
                                          get_part_detailed_analysis(E, self_df)}]_vars

\* C20: a follow-up with a cue word, put when last_answer is not empty and mentions no
\* entity-shaped token while the question of the turn before said 'part number <value>'
\* or 'part name <value>', makes <value> the current part.
C20_PartNumberOfLastQuestion ==
    [][LET asked == part_number_search(ida_turn.question)
       IN  (/\ analyzer = "intelligent"
            /\ ida_turn.outcome = "returned"
            /\ conversation_memory.last_answer # <<>>
            /\ part_name_search(conversation_memory.last_answer) = NoMatch
            /\ long_name_search(conversation_memory.last_answer) = NoMatch
            /\ asked # NoMatch
            /\ ida_turn'.question \in ida_questions
            /\ AnyIn(lower(ida_turn'.question), reference_cues))
           => conversation_memory'.context.current_part = strip(asked[2])]_vars

\* the label an axis resolves to by the rule of the claim: auto when every score is 0,
\* else the earliest label of the priority order among those with the highest score
axis_winner(priority, scores) ==
    LET top == {i \in 1..Len(priority) : \A j \in 1..Len(priority) : scores[priority[j]] <= scores[priority[i]]}
    IN  IF \A i \in 1..Len(priority) : scores[priority[i]] = 0 THEN "auto"
        ELSE priority[CHOOSE i \in top : \A j \in top : i <= j]

\* C18: determine_chart_type and determine_data_focus return auto exactly when every
\* label scores 0, and otherwise the label of highest score that comes first in pie, bar,
\* line, scatter and in defects, parts, trends, performance.
C18_AxisWinner ==
    esa_pc = "answered"
    => LET question_lower == strip(lower(esa_question))
           analysis == semantic_analysis[esa_question]
       IN  /\ analysis.chart_type
                = axis_winner(<<"pie", "bar", "line", "scatter">>, chart_scores(question_lower))
           /\ analysis.data_focus
                = axis_winner(<<"defects", "parts", "trends", "performance">>, focus_scores(question_lower))
           /\ analysis.chart_type = "auto"
                <=> \A c \in {"pie", "bar", "line", "scatter"} : chart_scores(question_lower)[c] = 0
           /\ analysis.data_focus = "auto"
                <=> \A f \in {"defects", "parts", "trends", "performance"} : focus_scores(question_lower)[f] = 0

\* a question on which two data focus labels tie for the highest score
C18_FocusTie ==
    /\ esa_pc = "answered"
    /\ LET scores == focus_scores(strip(lower(esa_question)))
       IN  /\ scores["defects"] > 0
           /\ scores["defects"] = scores["trends"]
           /\ scores["parts"] < scores["defects"]
           /\ scores["performance"] < scores["defects"]
    /\ semantic_analysis[esa_question].data_focus = "defects"

\* C19: with chart type auto create_smart_visualization draws by data focus: for defects
\* a pie chart when the question says 'distribution' and a bar chart otherwise, for
\* trends a line chart, for parts and any other focus a bar chart.
C19_AutoChartByFocus ==
    (/\ esa_pc \in {"answered", "answered_again"}
     /\ \E k \in 1..Len(esa_result.calls) : esa_result.calls[k] = "create_smart_visualization"
     /\ esa_result.chart_type = "auto")
    => esa_result.rendered =
          (IF esa_result.data_focus = "defects"
           THEN (IF Contains(lower(esa_question), <<"d","i","s","t","r","i","b","u","t","i","o","n">>) THEN "pie" ELSE "bar")
           ELSE IF esa_result.data_focus = "trends" THEN "line"
           ELSE "bar")

\* a request whose chart type is auto and whose focus is trends was drawn as a line chart
C19_TrendsDrawnAsLine ==
    /\ esa_pc = "answered"
    /\ esa_result.chart_type = "auto"
    /\ esa_result.data_focus = "trends"
    /\ esa_result.rendered = "line"

\* C21: a turn in which handle_contextual_questions resolves a part e leaves e the current
\* part and a member of mentioned_parts; the current part, once set, is a member of
\* mentioned_parts in every state.
C21_CurrentPartMentioned ==
    [][(analyzer = "intelligent" /\ ida_turn'.question \in ida_questions)
       => LET resolved == resolve_part(question_cues[ida_turn'.question],
                                       conversation_memory.last_answer)
              after == conversation_memory'
              mentioned(e) == \E k \in 1..Len(after.mentioned_parts) : after.mentioned_parts[k] = e
          IN  /\ resolved.found => /\ after.context.current_part = resolved.part_name
                                   /\ mentioned(resolved.part_name)
              /\ after.context.current_part # <<>> => mentioned(after.context.current_part)]_vars

\* a part resolved in a turn that a keyword branch went on to answer
C21_ResolvedAndRouted ==
    /\ ida_turn.handler \notin {"", "handle_contextual_questions"}
    /\ AnyIn(lower(ida_turn.question), context_words)
    /\ conversation_memory.mentioned_parts # <<>>
    /\ conversation_memory.context.current_part
         = conversation_memory.mentioned_parts[Len(conversation_memory.mentioned_parts)]

\* C22: a turn in which handle_contextual_questions resolves a part e is answered by
\* handle_contextual_questions with the answer of a part handler for e
\* (analyze_part_rejection_reasons or get_part_detailed_analysis); no keyword branch of
\* answer_question answers it.
C22_ResolutionShortCircuits ==
    [][(analyzer = "intelligent" /\ ida_turn'.question \in ida_questions)
       => LET resolved == resolve_part(question_cues[ida_turn'.question],
                                       conversation_memory.last_answer)
          IN  resolved.found
              => /\ ida_turn'.handler = "handle_contextual_questions"
                 /\ ida_turn'.text \in {analyze_part_rejection_reasons(resolved.part_name, self_df),
                                        get_part_detailed_analysis(resolved.part_name, self_df)}]_vars

\* C23: the specific_count of analyze_question_semantically is unset or an integer of at
\* least 1, and when it is set it is the integer of a 'top N', 'first N', 'N most' or
\* 'N highest' match in the question.
C23_CountPositiveOrUnset ==
    esa_pc # "ready"
    => LET question_lower == strip(lower(esa_question))
           specific_count == semantic_analysis[esa_question].specific_count
       IN  \/ specific_count = None
           \/ /\ specific_count >= 1
              /\ \E i \in 1..Len(question_lower) :
                     /\ NumberMatchAt(question_lower, i)[1] # 0
                     /\ int(NumberMatchAt(question_lower, i)[2]) = specific_count

\* C24: the last_answer that handle_contextual_questions scans for a part in a follow-up
\* turn is the answer that answer_question returned in the turn directly before it, never
\* the answer of an older turn.
C24_ScansPreviousAnswer ==
    [][(/\ analyzer = "intelligent"
        /\ ida_turn.outcome = "returned"
        /\ ida_turn'.question \in ida_questions
        /\ question_cues[ida_turn'.question].context_word
        /\ conversation_memory.last_answer # <<>>)
       => conversation_memory.last_answer = ida_turn.text]_vars

\* C25: when last_answer holds an entity-shaped token P, a question with both 'how' and
\* 'many' is answered by handle_contextual_questions with a part handler for P:
\* analyze_part_rejection_reasons(P) when the 'why' rule applies, and
\* get_part_detailed_analysis(P) otherwise, whatever keyword of a routing branch
\* ('machine', a date word, a quantity word) the question also holds.
C25_ContextBeforeKeywords ==
    [][LET token == FirstOf(part_name_search(conversation_memory.last_answer), NoMatch,
                            long_name_search(conversation_memory.last_answer))
           P == strip(token[1])
           next_question == lower(ida_turn'.question)
           has(w) == Contains(next_question, w)
       IN  (/\ analyzer = "intelligent"
            /\ ida_turn'.question \in ida_questions
            /\ token # NoMatch
            /\ has(<<"h","o","w">>) /\ has(<<"m","a","n","y">>))
           => /\ ida_turn'.handler = "handle_contextual_questions"
              /\ ida_turn'.outcome = "returned"
              /\ ida_turn'.text =
                    (IF has(<<"w","h","y">>) /\ (has(<<"r","e","j","e","c","t","i","o","n">>) \/ has(<<"m","o","s","t">>) \/ has(<<"t","h","i","s"," ","p","a","r","t">>))
                     THEN analyze_part_rejection_reasons(P, self_df)
                     ELSE get_part_detailed_analysis(P, self_df))]_vars

\* a 'how many' question that names a machine, answered for the current part
C25_MachineQuestionTaken ==
    /\ ida_turn.handler = "handle_contextual_questions"
    /\ Contains(lower(ida_turn.question), <<"h","o","w"," ","m","a","n","y">>)
    /\ Contains(lower(ida_turn.question), <<"m","a","c","h","i","n","e">>)
    /\ conversation_memory.context.current_part # <<>>
    /\ ida_turn.text = get_part_detailed_analysis(conversation_memory.context.current_part, self_df)

C27_CountsAgree ==
    (/\ esa_pc # "ready"
     /\ ~AnyIn(lower(esa_question), answer_chart_words)
     /\ is_rejection_query(lower(esa_question)))
    => LET specific_count == semantic_analysis[esa_question].specific_count
       IN  /\ esa_result.calls = <<"get_top_rejection_reasons">>
           /\ esa_result.count = <<IF specific_count = None THEN 5 ELSE limit_count(specific_count)>>

\* C28: a question for which determine_chart_type returns auto does not contain
\* 'distribution', so create_smart_visualization never draws a pie chart for chart type
\* auto: it draws a line chart exactly when the data focus is trends, a bar chart otherwise.
C28_AutoNeverPie ==
    (esa_pc # "ready" /\ semantic_analysis[esa_question].chart_type = "auto")
    => /\ ~Contains(lower(esa_question), <<"d","i","s","t","r","i","b","u","t","i","o","n">>)
       /\ (\E k \in 1..Len(esa_result.calls) : esa_result.calls[k] = "create_smart_visualization")
            => /\ esa_result.rendered \in {"line", "bar"}
               /\ (esa_result.rendered = "line") = (semantic_analysis[esa_question].data_focus = "trends")

\* a request about defects with chart type auto, drawn as a bar chart
C28_AutoDefectsDrawnAsBar ==
    /\ esa_pc # "ready"
    /\ semantic_analysis[esa_question].chart_type = "auto"
    /\ semantic_analysis[esa_question].data_focus = "defects"
    /\ \E k \in 1..Len(esa_result.calls) : esa_result.calls[k] = "create_smart_visualization"
    /\ esa_result.rendered = "bar"

\* C29: handle_defect_questions returns for every question: its default fallback calls it
\* once more with 'top 5 rejection reasons', and that inner call returns without calling
\* it again, so the recursion is never more than one call deep.
C29_FallbackDepthOne ==
    (analyzer = "intelligent" /\ ida_turn.handler = "handle_defect_questions")
    => \A render \in BOOLEAN :
           LET call == routed_answers[ida_turn.question][self_df][render].result
               inner == handle_defect_questions_at(fallback_question, self_df, render, 1)
           IN  /\ ida_turn.outcome = "returned"
               /\ call.outcome = "returned"
               /\ call.depth <= 1
               /\ inner.outcome = "returned" /\ inner.depth = 1
               /\ call.depth = 1 => call = inner

\* a question that took the default fallback: it was answered by the inner call
C29_AnsweredByInnerCall ==
    /\ ida_turn.handler = "handle_defect_questions"
    /\ routed_answers[ida_turn.question][self_df][TRUE].result.depth = 1
    /\ ida_turn.text = handle_defect_questions_at(fallback_question, self_df, TRUE, 1).text
    /\ ida_turn.question # fallback_question

\* C30: analyze_chart_request gives every question a data_type of parts, trends or
\* rejections: parts when the question says 'part' or 'component', else trends when it
\* says 'trend', 'time', 'monthly', 'daily' or 'over time', else rejections. So
\* generate_intelligent_chart never takes its 'defects' or 'monthly' branch and never
\* reaches create_smart_fallback_chart.
C30_ThreeDataTypes ==
    (analyzer = "intelligent" /\ ida_turn.question \in ida_questions)
    => LET question_lower == lower(ida_turn.question)
           chart_analysis == analyze_chart_request(ida_turn.question)
       IN  /\ chart_analysis.data_type =
                 (IF AnyIn(question_lower, <<<<"p","a","r","t">>, <<"c","o","m","p","o","n","e","n","t">>>>) THEN "parts"
                  ELSE IF AnyIn(question_lower, <<<<"t","r","e","n","d">>, <<"t","i","m","e">>, <<"m","o","n","t","h","l","y">>, <<"d","a","i","l","y">>, <<"o","v","e","r"," ","t","i","m","e">>>>)
                  THEN "trends"
                  ELSE "rejections")
           /\ chart_branch(chart_analysis) \in {"create_rejection_reasons_chart", "create_trend_chart",
                                                "create_parts_analysis_chart"}
           /\ \A render \in BOOLEAN :
                  generate_intelligent_chart(ida_turn.question, self_df, render) =
                      (CASE chart_analysis.data_type = "parts"
                              -> create_parts_analysis_chart(ida_turn.question, chart_analysis, self_df, render)
                         [] chart_analysis.data_type = "trends"
                              -> create_trend_chart(ida_turn.question, chart_analysis, self_df, render)
                         [] chart_analysis.data_type = "rejections"
                              -> create_rejection_reasons_chart(ida_turn.question, chart_analysis, self_df, render))

\* a chart request that names no data type: handle_analysis_questions had it drawn as a
\* chart of rejection reasons
C30_DefaultIsRejections ==
    /\ ida_turn.handler = "handle_analysis_questions"
    /\ AnyIn(lower(ida_turn.question), analysis_chart_words)
    /\ ~AnyIn(lower(ida_turn.question), <<<<"p","a","r","t">>, <<"c","o","m","p","o","n","e","n","t">>, <<"t","r","e","n","d">>, <<"t","i","m","e">>, <<"m","o","n","t","h","l","y">>, <<"d","a","i","l","y">>,
                                          <<"d","e","f","e","c","t">>, <<"r","e","j","e","c","t","i","o","n">>, <<"r","e","a","s","o","n">>, <<"c","a","u","s","e">>>>)
    /\ analyze_chart_request(ida_turn.question).data_type = "rejections"
    /\ ida_turn.text \in {create_rejection_reasons_chart(ida_turn.question,
                               analyze_chart_request(ida_turn.question), self_df, render) : render \in BOOLEAN}

====
